---- MODULE Spec2Model ----
(***************************************************************************)
(* State-machine model of the tick-based orchestration engine of the       *)
(* satellite / drone energy simulation (backend/core, backend/routes).     *)
(*                                                                         *)
(* Numbers are fixed point so that every quantity of the program is an     *)
(* integer:                                                                *)
(*   energy, payload            1 unit = 0.01 energy unit                  *)
(*   reserve_battery            1 unit = 0.001 reserve unit (= 1 km)       *)
(*   task progress              1 unit = 0.001                             *)
(*   distances                  whole km                                   *)
(* Identities: satellites are numbered in insertion order of SATELLITES,   *)
(* drones in insertion order of BATTERIES, tasks in order of creation.     *)
(***************************************************************************)
EXTENDS Integers, Sequences, FiniteSets, TLC

(***************************************************************************)
(* Bounds of the model.                                                    *)
(***************************************************************************)
MaxTicks == 5
MaxDrones == 3
MaxTasks == 1
MaxCount == 2
MaxQueued == 3
MaxLoadTicks == 2455

(***************************************************************************)
(* config.py                                                               *)
(***************************************************************************)
MAX_TASKS_PER_SAT == 30
MIN_ENERGY_TO_ACCEPT == 1000
TASK_ENERGY_RATE == 10
TASK_PROGRESS_RATE == 20
DRONE_SPEED_KM_PER_TICK == 4000
DRONE_RESERVE_PER_KM == 1
DRONE_RESERVE_MIN_TO_CONTINUE == 10000
DRONE_RESERVE_MAX == 3000000
DRONE_ENROUTE_MAX_TICKS == 8
DRONE_PAYLOAD_CHARGE_RATE == 800
DRONE_PAYLOAD_MAX == 12000
PAYLOAD_CHARGE_MIN == 1500
DRONE_HARVEST_RATE == 1000
HARVEST_FLOOR == 7000
HARVEST_START_LEVEL == 8000
SAT_FULL_EPS == 50
DRONE_MAX_DWELL_TICKS == 60
AUTO_DISPATCH_ENABLED == TRUE
AUTO_NEEDY_THRESH == 2500
AUTO_MAX_DRONES_PER_SAT == 2

Min2(a, b) == IF a <= b THEN a ELSE b
Max2(a, b) == IF a >= b THEN a ELSE b

(***************************************************************************)
(* utils/geo.py.  Positions are named points; haversine_km is its value on *)
(* those points, rounded to the km:                                        *)
(*   0 = (lat 0, lon 0)   home base / Earth                                *)
(*   1 = (lat 0, lon 90)      2 = (lat 0, lon 180)     3 = (lat 60, lon 0) *)
(***************************************************************************)
Positions == 0 .. 3
HOME == 0

haversine_km(p, q) ==
    LET a == Min2(p, q)
        b == Max2(p, q)
    IN  IF a = b THEN 0
        ELSE IF a = 0 /\ b = 1 THEN 10008
        ELSE IF a = 0 /\ b = 2 THEN 20015
        ELSE IF a = 0 /\ b = 3 THEN 6672
        ELSE IF a = 1 /\ b = 2 THEN 10008
        ELSE IF a = 1 /\ b = 3 THEN 10008
        ELSE 13343

(***************************************************************************)
(* core/models.py                                                          *)
(***************************************************************************)
NoTarget == [kind |-> "none", satellite_id |-> 0]
EarthTarget == [kind |-> "earth", satellite_id |-> 0]
SatTarget(s) == [kind |-> "satellite", satellite_id |-> s]

Satellite(e, cap, gen, pos) ==
    [energy_amount |-> e, max_energy |-> 12000, processing_capacity |-> cap,
     current_tasks |-> << >>, solar_gen_rate |-> gen, position |-> pos]

Battery(reserve, payload, st) ==
    [reserve_battery |-> reserve, battery |-> payload, position |-> HOME,
     status |-> st, speed_km_per_tick |-> 4000, target |-> NoTarget,
     eta_ticks |-> 0, home_base |-> HOME, dwell_ticks |-> 0,
     enroute_ticks |-> 0]

Task(id, need, pp, prio) ==
    [task_id |-> id, energy_need |-> need, processing_power_needed |-> pp,
     priority |-> prio]

Event(type, b, s, amount, reason) ==
    [type |-> type, battery_id |-> b, satellite_id |-> s, amount |-> amount,
     reason |-> reason]

(***************************************************************************)
(* core/state.py.  SAT_CLAIM maps a satellite to its owner, 0 when the     *)
(* dictionary has no entry for it.                                         *)
(***************************************************************************)
NoOwner == 0

try_claim_sat_stealing(claim, sat_id, battery_id) ==
    [ok |-> TRUE, claim |-> [claim EXCEPT ![sat_id] = battery_id]]

try_claim_sat(claim, sat_id, battery_id) ==
    LET owner == claim[sat_id]
    IN  IF owner = NoOwner \/ owner = battery_id
        THEN [ok |-> TRUE, claim |-> [claim EXCEPT ![sat_id] = battery_id]]
        ELSE [ok |-> FALSE, claim |-> claim]

release_sat_unowned(claim, sat_id, battery_id) ==
    [claim EXCEPT ![sat_id] = NoOwner]

release_sat(claim, sat_id, battery_id) ==
    IF claim[sat_id] = battery_id
    THEN [claim EXCEPT ![sat_id] = NoOwner]
    ELSE claim

(***************************************************************************)
(* core/delegator.py.  A score is the program's score times 7 920 000, the *)
(* least factor that makes every term an integer when capacities and       *)
(* processing needs are multiples of 100 and max_energy divides 2 772 000. *)
(***************************************************************************)
REJECTED == -1000000000

PriorityTerm(prio) ==
    IF prio = "high" THEN 396000 ELSE IF prio = "medium" THEN 198000 ELSE 0

\* _score without the test of the task list's length
_score_uncapped(s, task) ==
    IF s.energy_amount < MIN_ENERGY_TO_ACCEPT THEN REJECTED
    ELSE LET e == (2772000 \div Max2(s.max_energy, 1)) * s.energy_amount
             spare == (1980000 \div (Max2(s.processing_capacity, 1) \div 100))
                      * (Max2(s.processing_capacity
                              - task.processing_power_needed, 0) \div 100)
             qpen == Len(s.current_tasks) * 1188000
         IN  e + spare + PriorityTerm(task.priority) - qpen

_score(s, task) ==
    IF s.energy_amount < MIN_ENERGY_TO_ACCEPT THEN REJECTED
    ELSE IF Len(s.current_tasks) >= MAX_TASKS_PER_SAT THEN REJECTED
    ELSE LET e == (2772000 \div Max2(s.max_energy, 1)) * s.energy_amount
             spare == (1980000 \div (Max2(s.processing_capacity, 1) \div 100))
                      * (Max2(s.processing_capacity
                              - task.processing_power_needed, 0) \div 100)
             qpen == Len(s.current_tasks) * 1188000
         IN  e + spare + PriorityTerm(task.priority) - qpen

\* the first satellite that does not reject the task
RECURSIVE BestSatelliteFirstFit(_, _, _, _, _)
BestSatelliteFirstFit(sats, task, i, best, bestScore) ==
    IF i > Len(sats) THEN [best |-> best, bestScore |-> bestScore]
    ELSE LET sc == _score(sats[i], task)
         IN  IF sc > bestScore /\ best = 0
             THEN BestSatelliteFirstFit(sats, task, i + 1, i, sc)
             ELSE BestSatelliteFirstFit(sats, task, i + 1, best, bestScore)

RECURSIVE BestSatellite(_, _, _, _, _)
BestSatellite(sats, task, i, best, bestScore) ==
    IF i > Len(sats) THEN [best |-> best, bestScore |-> bestScore]
    ELSE LET sc == _score(sats[i], task)
         IN  IF sc > bestScore
             THEN BestSatellite(sats, task, i + 1, i, sc)
             ELSE BestSatellite(sats, task, i + 1, best, bestScore)

TaskRecord(task) ==
    [task_id |-> task.task_id, remaining_energy |-> task.energy_need,
     progress |-> 0, pp_need |-> task.processing_power_needed,
     priority |-> task.priority]

DictSet(d, k, v) == [x \in (DOMAIN d) \cup {k} |-> IF x = k THEN v ELSE d[x]]
DictPop(d, k) == [x \in (DOMAIN d) \ {k} |-> d[x]]

RECURSIVE assign_pending_skipping(_)
assign_pending_skipping(w) ==
    IF w.queue = << >> THEN w
    ELSE LET task == Head(w.queue)
             r == BestSatellite(w.sats, task, 1, 0, REJECTED)
         IN  IF r.best = 0 \/ r.bestScore < -100000000
             THEN assign_pending_skipping([w EXCEPT !.queue = Tail(@)])
             ELSE assign_pending_skipping(
                    [w EXCEPT
                       !.queue = Tail(@),
                       !.sats[r.best].current_tasks =
                           Append(@, TaskRecord(task)),
                       !.assigned = DictSet(@, task.task_id, r.best),
                       !.ev = Append(@, Event("task.assigned", task.task_id,
                                              r.best, 0, ""))])

RECURSIVE assign_pending(_)
assign_pending(w) ==
    IF w.queue = << >> THEN w
    ELSE LET task == Head(w.queue)
             r == BestSatellite(w.sats, task, 1, 0, REJECTED)
         IN  IF r.best = 0 \/ r.bestScore < -100000000 THEN w
             ELSE assign_pending(
                    [w EXCEPT
                       !.queue = Tail(@),
                       !.sats[r.best].current_tasks =
                           Append(@, TaskRecord(task)),
                       !.assigned = DictSet(@, task.task_id, r.best),
                       !.ev = Append(@, Event("task.assigned", task.task_id,
                                              r.best, 0, ""))])

(***************************************************************************)
(* core/satellites.py                                                      *)
(***************************************************************************)
\* a starved task makes no progress
TaskStepStalling(energy, t) ==
    LET need == Min2(TASK_ENERGY_RATE, t.remaining_energy)
        fed == energy >= need /\ need > 0
        rem == IF fed THEN t.remaining_energy - need ELSE t.remaining_energy
        prog == Min2(1000, t.progress + (IF fed THEN TASK_PROGRESS_RATE ELSE 0))
    IN  [energy |-> IF fed THEN energy - need ELSE energy,
         task |-> [t EXCEPT !.remaining_energy = rem, !.progress = prog],
         completed |-> prog >= 1000 \/ rem <= 0]

\* a task is completed only when both its progress and its energy need say so
TaskStepBoth(energy, t) ==
    LET need == Min2(TASK_ENERGY_RATE, t.remaining_energy)
        fed == energy >= need /\ need > 0
        rem == IF fed THEN t.remaining_energy - need ELSE t.remaining_energy
        prog == Min2(1000, t.progress
                     + (IF fed THEN TASK_PROGRESS_RATE
                        ELSE TASK_PROGRESS_RATE \div 5))
    IN  [energy |-> IF fed THEN energy - need ELSE energy,
         task |-> [t EXCEPT !.remaining_energy = rem, !.progress = prog],
         completed |-> prog >= 1000 /\ rem <= 0]

\* One task's share of a satellite tick: burn, then progress.
TaskStep(energy, t) ==
    LET need == Min2(TASK_ENERGY_RATE, t.remaining_energy)
        fed == energy >= need /\ need > 0
        rem == IF fed THEN t.remaining_energy - need ELSE t.remaining_energy
        prog == Min2(1000, t.progress
                     + (IF fed THEN TASK_PROGRESS_RATE
                        ELSE TASK_PROGRESS_RATE \div 5))
    IN  [energy |-> IF fed THEN energy - need ELSE energy,
         task |-> [t EXCEPT !.remaining_energy = rem, !.progress = prog],
         completed |-> prog >= 1000 \/ rem <= 0]

\* The loop over s.current_tasks: acc = [energy, kept, done].
RECURSIVE ProcessTasks(_, _, _)
ProcessTasks(tasks, i, acc) ==
    IF i > Len(tasks) THEN acc
    ELSE LET r == TaskStep(acc.energy, tasks[i])
         IN  IF r.completed
             THEN ProcessTasks(tasks, i + 1,
                     [energy |-> r.energy, kept |-> acc.kept,
                      done |-> Append(acc.done, r.task.task_id)])
             ELSE ProcessTasks(tasks, i + 1,
                     [energy |-> r.energy, kept |-> Append(acc.kept, r.task),
                      done |-> acc.done])

SolarStepUnclamped(s) ==
    IF s.solar_gen_rate > 0 THEN s.energy_amount + s.solar_gen_rate
    ELSE s.energy_amount

SolarStep(s) ==
    IF s.solar_gen_rate > 0
    THEN Min2(s.max_energy, s.energy_amount + s.solar_gen_rate)
    ELSE s.energy_amount

\* longitude in degrees of the named points of utils/geo.py
Longitude(p) == IF p = 1 THEN 90 ELSE IF p = 2 THEN 180 ELSE 0

\* 1000 * cos(x * pi / 2) for x = h / 6, h = 0 .. 6 hours from local noon
CosineRamp == <<1000, 966, 866, 707, 500, 259, 0>>

\* the wall clock of a tick, in whole hours UTC
Hours == 0 .. 23

\* _daylight_factor in thousandths, on whole hours
_daylight_factor(lon, now) ==
    LET hrs == (now + lon \div 15) % 24
    IN  IF 6 <= hrs /\ hrs <= 18
        THEN CosineRamp[(IF hrs >= 12 THEN hrs - 12 ELSE 12 - hrs) + 1]
        ELSE 0

\* advance_tick, step 1 at wall-clock hour now: k is computed and not used
SolarGeneration(s, now) ==
    LET k == _daylight_factor(Longitude(s.position), now)
    IN  SolarStep(s)

\* the completed tasks left in the assignment index
PopAllSkipped(d, ids, i) == d

RECURSIVE PopAll(_, _, _)
PopAll(d, ids, i) ==
    IF i > Len(ids) THEN d ELSE PopAll(DictPop(d, ids[i]), ids, i + 1)

RECURSIVE CompletedEvents(_, _, _)
CompletedEvents(ids, s, i) ==
    IF i > Len(ids) THEN << >>
    ELSE <<Event("task.completed", ids[i], s, 0, "")>>
         \o CompletedEvents(ids, s, i + 1)

RECURSIVE advance_tick(_, _)
advance_tick(w, i) ==
    IF i > Len(w.sats) THEN w
    ELSE LET s == w.sats[i]
             r == ProcessTasks(s.current_tasks, 1,
                     [energy |-> SolarStep(s), kept |-> << >>, done |-> << >>])
             alert == IF r.energy < 1000
                      THEN <<Event("alert.low_energy", 0, i, r.energy, "")>>
                      ELSE << >>
         IN  advance_tick(
                [w EXCEPT
                   !.sats[i].energy_amount = r.energy,
                   !.sats[i].current_tasks = r.kept,
                   !.assigned = PopAll(@, r.done, 1),
                   !.ev = @ \o CompletedEvents(r.done, i, 1) \o alert],
                i + 1)

(***************************************************************************)
(* core/orchestrator_batteries.py.  The operators work on a world record   *)
(* w = [sats, bats, claim, queue, assigned, ev, instant, config]: the      *)
(* dictionaries of core/state.py, the events emitted so far by the running *)
(* handler, CONFIG.DRONE_TRAVEL_INSTANT, and the settings of CONFIG that a *)
(* deployment changes from their defaults (DRONE_ENROUTE_MAX_TICKS).       *)
(***************************************************************************)
SatIds(w) == 1 .. Len(w.sats)
DroneIds(w) == 1 .. Len(w.bats)

Emit(w, e) == [w EXCEPT !.ev = Append(@, e)]

TargetsSat(b, s) == b.target.kind = "satellite" /\ b.target.satellite_id = s

_reserve_cost_km(km) == km * DRONE_RESERVE_PER_KM

_can_reach(drone, pos) ==
    drone.reserve_battery >=
        _reserve_cost_km(haversine_km(drone.position, pos))
        + DRONE_RESERVE_MIN_TO_CONTINUE

_set_course(w, d, pos, label) ==
    LET drone == w.bats[d]
        dkm == haversine_km(drone.position, pos)
        cost == _reserve_cost_km(dkm)
        eta == IF w.instant THEN 0
               ELSE Max2(1, dkm \div Max2(DRONE_SPEED_KM_PER_TICK, 1))
    IN  Emit([w EXCEPT !.bats[d] =
                 [drone EXCEPT !.speed_km_per_tick = DRONE_SPEED_KM_PER_TICK,
                               !.reserve_battery = @ - cost,
                               !.eta_ticks = eta,
                               !.dwell_ticks = 0,
                               !.enroute_ticks = 0]],
             Event("drone.enroute", d, label, eta, ""))

_arrive_at(drone, pos) ==
    [drone EXCEPT !.position = pos, !.eta_ticks = 0, !.dwell_ticks = 0,
                  !.enroute_ticks = 0]

_release_current_claim_skipped(w, d) == w

_release_current_claim(w, d) ==
    IF w.bats[d].target.kind = "satellite"
    THEN [w EXCEPT !.claim = release_sat(@, w.bats[d].target.satellite_id, d)]
    ELSE w

\* result: "arrived" (True), "timeout", "no" (False)
_tick_travel(w, d, dest) ==
    LET drone == w.bats[d]
    IN  IF w.instant
        THEN [w |-> [w EXCEPT !.bats[d] = _arrive_at(drone, dest)],
              result |-> "arrived"]
        ELSE IF drone.eta_ticks > 0
        THEN LET moved == [drone EXCEPT !.eta_ticks = @ - 1,
                                        !.enroute_ticks = @ + 1]
             IN  IF moved.enroute_ticks >= w.config.DRONE_ENROUTE_MAX_TICKS
                 THEN [w |-> [w EXCEPT !.bats[d] = moved],
                       result |-> "timeout"]
                 ELSE IF moved.eta_ticks = 0
                 THEN [w |-> [w EXCEPT !.bats[d] = _arrive_at(moved, dest)],
                       result |-> "arrived"]
                 ELSE [w |-> [w EXCEPT !.bats[d] = moved], result |-> "no"]
        ELSE [w |-> w, result |-> "no"]

SatFull(s) == s.energy_amount >= s.max_energy - SAT_FULL_EPS

ChargingCount(w, d, s) ==
    Cardinality({b \in DroneIds(w) :
                    b # d /\ w.bats[b].status = "charging"
                    /\ TargetsSat(w.bats[b], s)})

ChargeCandidates(w, d) ==
    {s \in SatIds(w) :
        /\ ~SatFull(w.sats[s])
        /\ _can_reach(w.bats[d], w.sats[s].position)
        /\ ChargingCount(w, d, s) < AUTO_MAX_DRONES_PER_SAT}

\* the sort key without the number of chargers: candidates.sort(key = energy)
_find_charging_target_by_energy(w, d) ==
    LET c == ChargeCandidates(w, d)
    IN  IF c = {} THEN 0
        ELSE CHOOSE s \in c : \A t \in c \ {s} :
                \/ w.sats[s].energy_amount < w.sats[t].energy_amount
                \/ /\ w.sats[s].energy_amount = w.sats[t].energy_amount
                   /\ s < t

\* candidates.sort(key = (energy, charging_count)) is stable: the first of
\* the least keys in iteration order.  0 stands for None.
_find_charging_target(w, d) ==
    LET c == ChargeCandidates(w, d)
        Before(a, b) ==
            \/ w.sats[a].energy_amount < w.sats[b].energy_amount
            \/ /\ w.sats[a].energy_amount = w.sats[b].energy_amount
               /\ \/ ChargingCount(w, d, a) < ChargingCount(w, d, b)
                  \/ /\ ChargingCount(w, d, a) = ChargingCount(w, d, b)
                     /\ a < b
    IN  IF c = {} THEN 0
        ELSE CHOOSE s \in c : \A t \in c \ {s} : Before(s, t)

HarvestCandidates(w, d) ==
    {s \in SatIds(w) :
        /\ w.sats[s].energy_amount >= HARVEST_START_LEVEL
        /\ _can_reach(w.bats[d], w.sats[s].position)
        /\ ~\E b \in DroneIds(w) :
              w.bats[b].status = "charging" /\ TargetsSat(w.bats[b], s)
        /\ ~\E b \in DroneIds(w) :
              b # d /\ w.bats[b].status = "harvesting"
              /\ TargetsSat(w.bats[b], s)}

\* the first candidate in iteration order, whatever its energy
_find_harvest_source_first(w, d) ==
    LET c == HarvestCandidates(w, d)
    IN  IF c = {} THEN 0 ELSE CHOOSE s \in c : \A t \in c : s <= t

\* max(candidates, key = energy): the first of the greatest in iteration order
_find_harvest_source(w, d) ==
    LET c == HarvestCandidates(w, d)
    IN  IF c = {} THEN 0
        ELSE CHOOSE s \in c : \A t \in c \ {s} :
                \/ w.sats[s].energy_amount > w.sats[t].energy_amount
                \/ /\ w.sats[s].energy_amount = w.sats[t].energy_amount
                   /\ s < t

\* the test of the payload turned round: a drone with payload goes home
_should_go_to_earth_with_payload(w, d) ==
    w.bats[d].battery >= PAYLOAD_CHARGE_MIN

_should_go_to_earth(w, d) ==
    LET drone == w.bats[d]
    IN  IF /\ drone.battery < PAYLOAD_CHARGE_MIN
           /\ drone.reserve_battery < DRONE_RESERVE_MIN_TO_CONTINUE * 2
        THEN TRUE
        ELSE IF drone.battery < PAYLOAD_CHARGE_MIN
        THEN _find_harvest_source(w, d) = 0
        ELSE FALSE

\* the return to Earth with the target left as it was
ReturnToEarthKeepingTarget(w, d) ==
    LET w1 == _release_current_claim(w, d)
        w2 == [w1 EXCEPT !.bats[d].status = "returning"]
    IN  _set_course(w2, d, w2.bats[d].home_base, 0)

\* a drone with nothing to do waits where it is instead of flying home
ReturnToEarthStandby(w, d) ==
    LET w1 == _release_current_claim(w, d)
    IN  [w1 EXCEPT !.bats[d].status = "standby",
                   !.bats[d].target = NoTarget]

ReturnToEarth(w, d) ==
    LET w1 == _release_current_claim(w, d)
        w2 == [w1 EXCEPT !.bats[d].status = "returning",
                         !.bats[d].target = EarthTarget]
    IN  _set_course(w2, d, w2.bats[d].home_base, 0)

GoToSatellite(w, d, s, claim) ==
    LET w1 == [w EXCEPT !.claim = claim,
                        !.bats[d].status = "enroute",
                        !.bats[d].target = SatTarget(s)]
    IN  _set_course(w1, d, w1.sats[s].position, s)

_choose_next_mission(w, d) ==
    IF _should_go_to_earth(w, d) THEN ReturnToEarth(w, d)
    ELSE
      LET ct == IF w.bats[d].battery >= PAYLOAD_CHARGE_MIN
                THEN _find_charging_target(w, d) ELSE 0
          cc == IF ct # 0 THEN try_claim_sat(w.claim, ct, d)
                ELSE [ok |-> FALSE, claim |-> w.claim]
      IN  IF cc.ok THEN GoToSatellite(w, d, ct, cc.claim)
          ELSE
            LET ht == _find_harvest_source(w, d)
                hc == IF ht # 0 THEN try_claim_sat(w.claim, ht, d)
                      ELSE [ok |-> FALSE, claim |-> w.claim]
            IN  IF hc.ok THEN GoToSatellite(w, d, ht, hc.claim)
                ELSE ReturnToEarth(w, d)

\* needy left in iteration order
RECURSIVE SortByEnergySkipped(_, _)
SortByEnergySkipped(w, set) ==
    IF set = {} THEN << >>
    ELSE LET m == CHOOSE s \in set : \A t \in set : s <= t
         IN  <<m>> \o SortByEnergySkipped(w, set \ {m})

\* needy.sort(key = energy): ascending, ties in iteration order
RECURSIVE SortByEnergy(_, _)
SortByEnergy(w, set) ==
    IF set = {} THEN << >>
    ELSE LET m == CHOOSE s \in set : \A t \in set \ {s} :
                     \/ w.sats[s].energy_amount < w.sats[t].energy_amount
                     \/ /\ w.sats[s].energy_amount = w.sats[t].energy_amount
                        /\ s < t
         IN  <<m>> \o SortByEnergy(w, set \ {m})

TargetingCount(w, s) ==
    Cardinality({b \in DroneIds(w) : TargetsSat(w.bats[b], s)})

\* the closest available drone that can reach the satellite, 0 for None
ClosestDrone(w, s, avail) ==
    LET pos == w.sats[s].position
        c == {b \in avail : _can_reach(w.bats[b], pos)}
        dist(b) == haversine_km(w.bats[b].position, pos)
    IN  IF c = {} THEN 0
        ELSE CHOOSE b \in c : \A x \in c \ {b} :
                dist(b) < dist(x) \/ (dist(b) = dist(x) /\ b < x)

RECURSIVE DispatchLoop(_, _, _, _)
DispatchLoop(w, needy, i, avail) ==
    IF i > Len(needy) \/ avail = {} THEN w
    ELSE LET sat == needy[i]
             closest == ClosestDrone(w, sat, avail)
             c == IF closest # 0 THEN try_claim_sat(w.claim, sat, closest)
                  ELSE [ok |-> FALSE, claim |-> w.claim]
         IN  IF TargetingCount(w, sat) >= AUTO_MAX_DRONES_PER_SAT
             THEN DispatchLoop(w, needy, i + 1, avail)
             ELSE IF c.ok
             THEN DispatchLoop(
                    Emit(GoToSatellite(w, closest, sat, c.claim),
                         Event("drone.auto_dispatched", closest, sat, 0,
                               "low_energy")),
                    needy, i + 1, avail \ {closest})
             ELSE DispatchLoop(w, needy, i + 1, avail)

_auto_dispatch(w) ==
    IF ~w.config.AUTO_DISPATCH_ENABLED THEN w
    ELSE LET needy == {s \in SatIds(w) :
                          w.sats[s].energy_amount < AUTO_NEEDY_THRESH}
             avail == {b \in DroneIds(w) :
                          /\ w.bats[b].status \in {"at_earth", "standby"}
                          /\ w.bats[b].battery >= PAYLOAD_CHARGE_MIN}
         IN  IF needy = {} THEN w
             ELSE DispatchLoop(w, SortByEnergy(w, needy), 1, avail)

\* the timeout branches without the release of the claim
TimeoutRecoveryKeepingClaim(w, d) ==
    Emit([w EXCEPT !.bats[d].status = "returning",
                   !.bats[d].target = EarthTarget,
                   !.bats[d].position = w.bats[d].home_base,
                   !.bats[d].battery = DRONE_PAYLOAD_MAX,
                   !.bats[d].reserve_battery = DRONE_RESERVE_MAX],
         Event("drone.timeout_recovery", d, 0, 0, ""))

\* route, the two timeout branches (lines 310-320 and 353-363)
TimeoutRecovery(w, d) ==
    LET w1 == _release_current_claim(w, d)
    IN  Emit([w1 EXCEPT !.bats[d].status = "returning",
                        !.bats[d].target = EarthTarget,
                        !.bats[d].position = w1.bats[d].home_base,
                        !.bats[d].battery = DRONE_PAYLOAD_MAX,
                        !.bats[d].reserve_battery = DRONE_RESERVE_MAX],
             Event("drone.timeout_recovery", d, 0, 0, ""))

\* the arrival at Earth without the mission selection that follows it
TravelToEarthIdle(w, d) ==
    LET r == _tick_travel(w, d, w.bats[d].home_base)
    IN  IF r.result = "arrived"
        THEN Emit([r.w EXCEPT !.bats[d].status = "at_earth",
                              !.bats[d].battery = DRONE_PAYLOAD_MAX,
                              !.bats[d].reserve_battery = DRONE_RESERVE_MAX,
                              !.bats[d].target = NoTarget],
                  Event("drone.recharged", d, 0, 0, ""))
        ELSE IF r.result = "timeout" THEN TimeoutRecovery(r.w, d)
        ELSE r.w

\* route, a drone travelling to Earth
TravelToEarth(w, d) ==
    LET r == _tick_travel(w, d, w.bats[d].home_base)
    IN  IF r.result = "arrived"
        THEN _choose_next_mission(
               Emit([r.w EXCEPT !.bats[d].status = "at_earth",
                                !.bats[d].battery = DRONE_PAYLOAD_MAX,
                                !.bats[d].reserve_battery = DRONE_RESERVE_MAX,
                                !.bats[d].target = NoTarget],
                    Event("drone.recharged", d, 0, 0, "")), d)
        ELSE IF r.result = "timeout" THEN TimeoutRecovery(r.w, d)
        ELSE r.w

\* the arrival at a satellite without the test of HARVEST_START_LEVEL
TravelToSatelliteAnyLevel(w, d) ==
    LET s == w.bats[d].target.satellite_id
    IN  IF s \notin SatIds(w)
        THEN _choose_next_mission(_release_current_claim(w, d), d)
        ELSE
          LET r == _tick_travel(w, d, w.sats[s].position)
              drone == r.w.bats[d]
              sat == r.w.sats[s]
          IN  IF r.result = "arrived"
              THEN IF drone.battery >= PAYLOAD_CHARGE_MIN /\ ~SatFull(sat)
                   THEN Emit([r.w EXCEPT !.bats[d].status = "charging",
                                         !.bats[d].dwell_ticks = 0],
                             Event("drone.charging_start", d, s, 0, ""))
                   ELSE Emit([r.w EXCEPT !.bats[d].status = "harvesting",
                                         !.bats[d].dwell_ticks = 0],
                             Event("drone.harvesting_start", d, s, 0, ""))
              ELSE IF r.result = "timeout" THEN TimeoutRecovery(r.w, d)
              ELSE r.w

\* route, a drone travelling to a satellite
TravelToSatellite(w, d) ==
    LET s == w.bats[d].target.satellite_id
    IN  IF s \notin SatIds(w)
        THEN _choose_next_mission(_release_current_claim(w, d), d)
        ELSE
          LET r == _tick_travel(w, d, w.sats[s].position)
              drone == r.w.bats[d]
              sat == r.w.sats[s]
          IN  IF r.result = "arrived"
              THEN IF drone.battery >= PAYLOAD_CHARGE_MIN /\ ~SatFull(sat)
                   THEN Emit([r.w EXCEPT !.bats[d].status = "charging",
                                         !.bats[d].dwell_ticks = 0],
                             Event("drone.charging_start", d, s, 0, ""))
                   ELSE IF sat.energy_amount >= HARVEST_START_LEVEL
                   THEN Emit([r.w EXCEPT !.bats[d].status = "harvesting",
                                         !.bats[d].dwell_ticks = 0],
                             Event("drone.harvesting_start", d, s, 0, ""))
                   ELSE _choose_next_mission(
                          _release_current_claim(r.w, d), d)
              ELSE IF r.result = "timeout" THEN TimeoutRecovery(r.w, d)
              ELSE r.w

GiveAmountIgnoringDeficit(drone, sat) ==
    Min2(DRONE_PAYLOAD_CHARGE_RATE, drone.battery)

\* route, line 397-398: the amount of a charging transfer
GiveAmount(drone, sat) ==
    Min2(DRONE_PAYLOAD_CHARGE_RATE,
         Min2(drone.battery, sat.max_energy - sat.energy_amount))

TakeAmountIgnoringCapacity(drone, sat) ==
    Min2(DRONE_HARVEST_RATE, Max2(0, sat.energy_amount - HARVEST_FLOOR))

\* route, line 440-443: the amount of a harvesting transfer
TakeAmount(drone, sat) ==
    Min2(DRONE_HARVEST_RATE,
         Min2(DRONE_PAYLOAD_MAX - drone.battery,
              Max2(0, sat.energy_amount - HARVEST_FLOOR)))

\* a charging drone that does not stop at a full satellite
ChargingStepPastFull(w, d) ==
    LET s == w.bats[d].target.satellite_id
    IN  IF w.bats[d].target.kind # "satellite"
        THEN _choose_next_mission(w, d)
        ELSE IF s \notin SatIds(w)
        THEN _choose_next_mission(_release_current_claim(w, d), d)
        ELSE
          LET w1 == [w EXCEPT !.bats[d].dwell_ticks = @ + 1]
              drone == w1.bats[d]
              sat == w1.sats[s]
              payload_empty == drone.battery < PAYLOAD_CHARGE_MIN
              max_dwell == drone.dwell_ticks >= DRONE_MAX_DWELL_TICKS
              give == GiveAmount(drone, sat)
          IN  IF payload_empty \/ max_dwell
              THEN _choose_next_mission(
                     _release_current_claim(
                       Emit(w1, Event("drone.charging_complete", d, s, 0,
                                      IF payload_empty THEN "empty"
                                      ELSE "max_dwell")), d), d)
              ELSE IF give > 0
              THEN Emit([w1 EXCEPT !.bats[d].battery = @ - give,
                                   !.sats[s].energy_amount = @ + give],
                        Event("drone.charged", d, s, give, ""))
              ELSE w1

\* route, a drone in status charging
ChargingStep(w, d) ==
    LET s == w.bats[d].target.satellite_id
    IN  IF w.bats[d].target.kind # "satellite"
        THEN _choose_next_mission(w, d)
        ELSE IF s \notin SatIds(w)
        THEN _choose_next_mission(_release_current_claim(w, d), d)
        ELSE
          LET w1 == [w EXCEPT !.bats[d].dwell_ticks = @ + 1]
              drone == w1.bats[d]
              sat == w1.sats[s]
              sat_full == SatFull(sat)
              payload_empty == drone.battery < PAYLOAD_CHARGE_MIN
              max_dwell == drone.dwell_ticks >= DRONE_MAX_DWELL_TICKS
              give == GiveAmount(drone, sat)
          IN  IF sat_full \/ payload_empty \/ max_dwell
              THEN _choose_next_mission(
                     _release_current_claim(
                       Emit(w1, Event("drone.charging_complete", d, s, 0,
                                      IF sat_full THEN "full"
                                      ELSE IF payload_empty THEN "empty"
                                      ELSE "max_dwell")), d), d)
              ELSE IF give > 0
              THEN Emit([w1 EXCEPT !.bats[d].battery = @ - give,
                                   !.sats[s].energy_amount = @ + give],
                        Event("drone.charged", d, s, give, ""))
              ELSE w1

\* route, a drone in status harvesting
HarvestingStep(w, d) ==
    LET s == w.bats[d].target.satellite_id
    IN  IF w.bats[d].target.kind # "satellite"
        THEN _choose_next_mission(w, d)
        ELSE IF s \notin SatIds(w)
        THEN _choose_next_mission(_release_current_claim(w, d), d)
        ELSE
          LET w1 == [w EXCEPT !.bats[d].dwell_ticks = @ + 1]
              drone == w1.bats[d]
              sat == w1.sats[s]
              sat_low == sat.energy_amount <= HARVEST_FLOOR
              payload_full == drone.battery >= DRONE_PAYLOAD_MAX - 100
              max_dwell == drone.dwell_ticks >= DRONE_MAX_DWELL_TICKS
              take == TakeAmount(drone, sat)
          IN  IF sat_low \/ payload_full \/ max_dwell
              THEN _choose_next_mission(
                     _release_current_claim(
                       Emit(w1, Event("drone.harvesting_complete", d, s, 0,
                                      IF sat_low THEN "low"
                                      ELSE IF payload_full THEN "full"
                                      ELSE "max_dwell")), d), d)
              ELSE IF take > 0
              THEN Emit([w1 EXCEPT !.bats[d].battery = @ + take,
                                   !.sats[s].energy_amount = @ - take],
                        Event("drone.harvested", d, s, take, ""))
              ELSE w1

\* route, the body of the loop over BATTERIES for one drone
RouteDrone(w, d) ==
    LET drone == w.bats[d]
    IN  IF drone.status = "out_of_service" THEN w
        ELSE IF /\ drone.status \in {"enroute", "returning"}
                /\ drone.target.kind = "earth"
        THEN TravelToEarth(w, d)
        ELSE IF /\ drone.status \in {"enroute", "returning"}
                /\ drone.target.kind = "satellite"
        THEN TravelToSatellite(w, d)
        ELSE IF drone.status = "charging" THEN ChargingStep(w, d)
        ELSE IF drone.status = "harvesting" THEN HarvestingStep(w, d)
        ELSE IF /\ drone.status \in {"standby", "at_earth"}
                /\ drone.target.kind = "none"
        THEN _choose_next_mission(w, d)
        ELSE w

RECURSIVE RouteFrom(_, _)
RouteFrom(w, d) ==
    IF d > Len(w.bats) THEN w ELSE RouteFrom(RouteDrone(w, d), d + 1)

route(w) == RouteFrom(_auto_dispatch(w), 1)

\* route, the store when the loop comes to drone d: after _auto_dispatch
\* and the turns of the drones before d
RECURSIVE RouteBefore(_, _, _)
RouteBefore(w, i, d) ==
    IF i >= d THEN w ELSE RouteBefore(RouteDrone(w, i), i + 1, d)

AtTurn(w, d) == RouteBefore(_auto_dispatch(w), 1, d)

(***************************************************************************)
(* routes/control.py: POST /drones/launch.  The response is the pair of    *)
(* HTTP status and the list of launched drones.                            *)
(***************************************************************************)
FirstAtEarth(bats) ==
    LET c == {b \in 1 .. Len(bats) : bats[b].status = "at_earth"}
    IN  IF c = {} THEN 0 ELSE CHOOSE b \in c : \A x \in c : b <= x

RECURSIVE LaunchLoop(_, _, _, _)
LaunchLoop(w, sat, n, launched) ==
    IF n = 0 THEN [w |-> w, launched |-> launched]
    ELSE LET found == FirstAtEarth(w.bats)
             bats0 == IF found # 0 THEN w.bats
                      ELSE Append(w.bats,
                             Battery(DRONE_RESERVE_MAX, DRONE_PAYLOAD_MAX,
                                     "standby"))
             d == IF found # 0 THEN found ELSE Len(bats0)
             d_km == haversine_km(bats0[d].position, w.sats[sat].position)
             ticks == Max2(1, d_km \div DRONE_SPEED_KM_PER_TICK)
             w1 == [w EXCEPT !.bats =
                      [bats0 EXCEPT ![d].status = "enroute",
                                    ![d].target = SatTarget(sat),
                                    ![d].speed_km_per_tick =
                                        DRONE_SPEED_KM_PER_TICK,
                                    ![d].eta_ticks = ticks]]
         IN  LaunchLoop(Emit(w1, Event("drone.launched", d, sat, ticks, "")),
                        sat, n - 1, Append(launched, d))

launch(w, count, target) ==
    IF target \notin SatIds(w)
    THEN [w |-> w, response |-> [code |-> 404, launched |-> << >>]]
    ELSE LET r == LaunchLoop(w, target, count, << >>)
         IN  [w |-> r.w, response |-> [code |-> 200, launched |-> r.launched]]

\* the drones a launch of count units adds to BATTERIES
NewDrones(bats, count) ==
    LET idle == Cardinality({b \in 1 .. Len(bats) :
                                bats[b].status = "at_earth"})
    IN  Max2(0, count - idle)

(***************************************************************************)
(* seeds/seed_state.py.  A seeded world: satellites with their energies,   *)
(* and two drones at Earth, idle, payload and reserve full.  SeedWorlds    *)
(* are small stores seeded with the first satellite(s) of seed_state at    *)
(* other energies, so that full, needy and depleted satellites occur       *)
(* within a few ticks; SeedSatellites below is the store with the          *)
(* energies of seed_state itself.                                          *)
(***************************************************************************)
SeedDrones ==
    << [Battery(DRONE_RESERVE_MAX, DRONE_PAYLOAD_MAX, "at_earth")
           EXCEPT !.speed_km_per_tick = DRONE_SPEED_KM_PER_TICK],
       [Battery(DRONE_RESERVE_MAX, DRONE_PAYLOAD_MAX, "at_earth")
           EXCEPT !.speed_km_per_tick = DRONE_SPEED_KM_PER_TICK] >>

SeedWorlds ==
    { \* one satellite at 40% of its capacity
      << Satellite(4800, 2500, 45, 3) >>,
      \* depleted satellites
      << Satellite(500, 2500, 45, 3), Satellite(800, 1800, 35, 1) >>,
      \* nearly full satellites
      << Satellite(11200, 2500, 45, 3), Satellite(11600, 1800, 35, 1) >> }

(***************************************************************************)
(* core/economics.py.  Prices are in thousandths of a SOL per energy unit, *)
(* costs and revenues in units of 10^-5 SOL (amounts are in hundredths).   *)
(* The engine record holds the ledger and the traded volume, and with them *)
(* the financial counters of the satellites and drones, keyed by identity  *)
(* (an identity without an entry has counter 0): no other code reads or    *)
(* writes them.  A transaction is kept without the company and wallet      *)
(* labels it copies from its two parties; Earth is party 0.                *)
(***************************************************************************)
EARTH == 0
BASE_PRICE == 50
TRANSACTION_LOG_MAX == 1000

NewEconomics ==
    [transactions |-> << >>, total_volume_sol |-> 0,
     total_revenue |-> << >>, total_energy_sold |-> << >>,
     total_spent |-> << >>, total_energy_bought |-> << >>]

Counter(d, k) == IF k \in DOMAIN d THEN d[k] ELSE 0

\* deque(maxlen = 1000).append
LogAppend(log, txn) ==
    IF Len(log) >= TRANSACTION_LOG_MAX THEN Append(Tail(log), txn)
    ELSE Append(log, txn)

\* base_price * multiplier, the multiplier in tenths
calculate_dynamic_price(satellite) ==
    LET e == satellite.energy_amount
        m == satellite.max_energy
        multiplier == IF 10 * e < 2 * m THEN 25
                      ELSE IF 10 * e < 4 * m THEN 18
                      ELSE IF 10 * e < 6 * m THEN 13
                      ELSE IF 10 * e < 8 * m THEN 10
                      ELSE 7
    IN  (BASE_PRICE * multiplier) \div 10

Transaction(from, to, amount, price, total, type) ==
    [from_entity_id |-> from, to_entity_id |-> to, energy_amount |-> amount,
     price_per_unit |-> price, total_cost |-> total,
     transaction_type |-> type]

\* the Earth branch priced like a satellite at the base price
process_energy_transfer_priced(eco, sats, from_sat, to_drone, amount, transfer_type) ==
    LET price == IF from_sat = EARTH THEN BASE_PRICE
                 ELSE calculate_dynamic_price(sats[from_sat])
        total == amount * price
        txn == Transaction(from_sat, to_drone, amount, price, total,
                           IF from_sat = EARTH THEN "earth_recharge"
                           ELSE transfer_type)
    IN  [eco |-> [eco EXCEPT
                    !.transactions = LogAppend(@, txn),
                    !.total_volume_sol = @ + total,
                    !.total_revenue =
                        IF from_sat = EARTH THEN @
                        ELSE DictSet(@, from_sat, Counter(@, from_sat) + total),
                    !.total_energy_sold =
                        IF from_sat = EARTH THEN @
                        ELSE DictSet(@, from_sat, Counter(@, from_sat) + amount),
                    !.total_spent =
                        DictSet(@, to_drone, Counter(@, to_drone) + total),
                    !.total_energy_bought =
                        DictSet(@, to_drone, Counter(@, to_drone) + amount)],
         txn |-> txn,
         ev |-> <<Event("transaction.completed", to_drone, from_sat, amount,
                        transfer_type)>>]

\* EconomicsEngine.process_energy_transfer; from_sat is EARTH for None
process_energy_transfer(eco, sats, from_sat, to_drone, amount, transfer_type) ==
    LET price == IF from_sat = EARTH THEN 0
                 ELSE calculate_dynamic_price(sats[from_sat])
        total == amount * price
        txn == Transaction(from_sat, to_drone, amount, price, total,
                           IF from_sat = EARTH THEN "earth_recharge"
                           ELSE transfer_type)
        paid == IF from_sat = EARTH THEN eco
                ELSE [eco EXCEPT
                        !.total_revenue =
                            DictSet(@, from_sat, Counter(@, from_sat) + total),
                        !.total_energy_sold =
                            DictSet(@, from_sat, Counter(@, from_sat) + amount),
                        !.total_spent =
                            DictSet(@, to_drone, Counter(@, to_drone) + total),
                        !.total_energy_bought =
                            DictSet(@, to_drone, Counter(@, to_drone) + amount),
                        !.total_volume_sol = @ + total]
    IN  [eco |-> [paid EXCEPT !.transactions = LogAppend(@, txn)],
         txn |-> txn,
         ev |-> <<Event("transaction.completed", to_drone, from_sat, amount,
                        transfer_type)>>]

(***************************************************************************)
(* core/equilibrium.py.  A sample keeps the total energy and the capacity; *)
(* its utilization is their quotient.  The capacity is the same in every   *)
(* sample of a run (max_energy never changes and no satellite is added     *)
(* once the loop runs), so the mean utilization of the last ten samples is *)
(* the sum of their energies over ten capacities.                          *)
(***************************************************************************)
EQUILIBRIUM_CHECK_INTERVAL == 10
EQUILIBRIUM_WINDOW_TICKS == 50
EQUILIBRIUM_DISPATCH_THRESHOLD == -500
EQUILIBRIUM_MIN_SAMPLES == 10

NoRecommendation ==
    [action |-> "none", count |-> 0, total_needed |-> 0, reason |-> "none"]

Recommendation(action, count, total_needed, reason) ==
    [action |-> action, count |-> count, total_needed |-> total_needed,
     reason |-> reason]

NewMonitor ==
    [energy_history |-> << >>, tick_count |-> 0,
     last_recommendation |-> NoRecommendation]

RECURSIVE SumOver(_, _)
SumOver(f, n) == IF n = 0 THEN 0 ELSE f[n] + SumOver(f, n - 1)

Magnitude(x) == IF x < 0 THEN -x ELSE x

_calculate_drone_need(trend, energy_sum, capacity_sum, critical_sats, total, active, idle) ==
    IF trend < EQUILIBRIUM_DISPATCH_THRESHOLD * 2
    THEN Recommendation("add_drones", 2, total + 2, "severe_energy_loss")
    ELSE IF trend < EQUILIBRIUM_DISPATCH_THRESHOLD
    THEN Recommendation("add_drones", 1, total + 1, "moderate_energy_loss")
    ELSE IF critical_sats > 0 /\ idle > 0
    THEN Recommendation("dispatch_idle", 0, 0,
                        "critical_satellites_with_idle_drones")
    ELSE IF /\ 4 * capacity_sum <= 10 * energy_sum
            /\ 10 * energy_sum <= 7 * capacity_sum
            /\ Magnitude(trend) < 500
    THEN Recommendation("maintain", 0, 0, "equilibrium_achieved")
    ELSE IF idle > 1 /\ trend > 1000 /\ 10 * energy_sum > 8 * capacity_sum
    THEN Recommendation("reduce_drones", 1, 0, "excess_capacity")
    ELSE Recommendation("maintain", 0, 0, "monitoring")

\* the check without the comparison with last_recommendation: every
\* periodic check broadcasts
_check_equilibrium_always(mon, w) ==
    IF Len(mon.energy_history) < EQUILIBRIUM_MIN_SAMPLES
    THEN [mon |-> mon, ev |-> << >>]
    ELSE LET n == Len(mon.energy_history)
             recent == SubSeq(mon.energy_history,
                              n - EQUILIBRIUM_MIN_SAMPLES + 1, n)
             trend == recent[EQUILIBRIUM_MIN_SAMPLES].total_energy
                          - recent[1].total_energy
             energy_sum ==
                 SumOver([i \in 1 .. EQUILIBRIUM_MIN_SAMPLES |->
                              recent[i].total_energy],
                         EQUILIBRIUM_MIN_SAMPLES)
             capacity_sum ==
                 EQUILIBRIUM_MIN_SAMPLES
                     * recent[EQUILIBRIUM_MIN_SAMPLES].capacity
             critical_sats ==
                 Cardinality({s \in SatIds(w) :
                     w.sats[s].energy_amount < AUTO_NEEDY_THRESH})
             active == recent[EQUILIBRIUM_MIN_SAMPLES].active_drones
             idle == recent[EQUILIBRIUM_MIN_SAMPLES].idle_drones
             recommendation ==
                 _calculate_drone_need(trend, energy_sum, capacity_sum,
                                       critical_sats, Len(w.bats), active,
                                       idle)
         IN  [mon |-> [mon EXCEPT !.last_recommendation = recommendation],
              ev |-> <<[type |-> "equilibrium.update",
                        tick |-> mon.tick_count,
                        energy_trend |-> trend,
                        critical_satellites |-> critical_sats,
                        active_drones |-> active,
                        idle_drones |-> idle,
                        total_drones |-> Len(w.bats),
                        recommendation |-> recommendation]>>]

_check_equilibrium(mon, w) ==
    IF Len(mon.energy_history) < EQUILIBRIUM_MIN_SAMPLES
    THEN [mon |-> mon, ev |-> << >>]
    ELSE LET n == Len(mon.energy_history)
             recent == SubSeq(mon.energy_history,
                              n - EQUILIBRIUM_MIN_SAMPLES + 1, n)
             trend == recent[EQUILIBRIUM_MIN_SAMPLES].total_energy
                          - recent[1].total_energy
             energy_sum ==
                 SumOver([i \in 1 .. EQUILIBRIUM_MIN_SAMPLES |->
                              recent[i].total_energy],
                         EQUILIBRIUM_MIN_SAMPLES)
             capacity_sum ==
                 EQUILIBRIUM_MIN_SAMPLES
                     * recent[EQUILIBRIUM_MIN_SAMPLES].capacity
             critical_sats ==
                 Cardinality({s \in SatIds(w) :
                     w.sats[s].energy_amount < AUTO_NEEDY_THRESH})
             active == recent[EQUILIBRIUM_MIN_SAMPLES].active_drones
             idle == recent[EQUILIBRIUM_MIN_SAMPLES].idle_drones
             recommendation ==
                 _calculate_drone_need(trend, energy_sum, capacity_sum,
                                       critical_sats, Len(w.bats), active,
                                       idle)
         IN  IF recommendation # mon.last_recommendation
             THEN [mon |-> [mon EXCEPT
                              !.last_recommendation = recommendation],
                   ev |-> <<[type |-> "equilibrium.update",
                             tick |-> mon.tick_count,
                             energy_trend |-> trend,
                             critical_satellites |-> critical_sats,
                             active_drones |-> active,
                             idle_drones |-> idle,
                             total_drones |-> Len(w.bats),
                             recommendation |-> recommendation]>>]
             ELSE [mon |-> mon, ev |-> << >>]

\* deque(maxlen = EQUILIBRIUM_WINDOW_TICKS).append
WindowAppend(history, sample) ==
    IF Len(history) >= EQUILIBRIUM_WINDOW_TICKS
    THEN Append(Tail(history), sample)
    ELSE Append(history, sample)

record_tick(mon, w) ==
    LET total_energy ==
            SumOver([s \in SatIds(w) |-> w.sats[s].energy_amount],
                    Len(w.sats))
        total_capacity ==
            SumOver([s \in SatIds(w) |-> w.sats[s].max_energy], Len(w.sats))
        active_drones ==
            Cardinality({d \in DroneIds(w) :
                w.bats[d].status \in {"charging", "enroute", "harvesting"}})
        idle_drones ==
            Cardinality({d \in DroneIds(w) :
                w.bats[d].status \in {"at_earth", "standby"}})
        sampled ==
            [mon EXCEPT
               !.energy_history =
                   WindowAppend(@, [tick |-> mon.tick_count,
                                    total_energy |-> total_energy,
                                    capacity |-> total_capacity,
                                    active_drones |-> active_drones,
                                    idle_drones |-> idle_drones]),
               !.tick_count = @ + 1]
    IN  IF sampled.tick_count % EQUILIBRIUM_CHECK_INTERVAL = 0
        THEN _check_equilibrium(sampled, w)
        ELSE [mon |-> sampled, ev |-> << >>]

(***************************************************************************)
(* The state machine.                                                      *)
(***************************************************************************)
VARIABLES SATELLITES, BATTERIES, SAT_CLAIM, TASK_QUEUE, ASSIGNED,
          DRONE_TRAVEL_INSTANT, CONFIG, events, response, pc, ticks, created,
          _running, tick_stages, MONITOR, ECONOMICS

vars == <<SATELLITES, BATTERIES, SAT_CLAIM, TASK_QUEUE, ASSIGNED,
          DRONE_TRAVEL_INSTANT, CONFIG, events, response, pc, ticks, created,
          _running, tick_stages, MONITOR, ECONOMICS>>

\* the scheduler's flag, the stages of the tick under way, and the two
\* module-level engines
services == <<_running, tick_stages, MONITOR, ECONOMICS>>

\* the scheduler was started by create_app; the monitor and the economics
\* engine are as their modules construct them
Started ==
    /\ _running = TRUE
    /\ tick_stages = << >>
    /\ MONITOR = NewMonitor
    /\ ECONOMICS = NewEconomics

\* config.py as shipped
DefaultConfig ==
    [DRONE_ENROUTE_MAX_TICKS |-> DRONE_ENROUTE_MAX_TICKS,
     AUTO_DISPATCH_ENABLED |-> AUTO_DISPATCH_ENABLED]

NoResponse == [code |-> 0, launched |-> << >>]

World ==
    [sats |-> SATELLITES, bats |-> BATTERIES, claim |-> SAT_CLAIM,
     queue |-> TASK_QUEUE, assigned |-> ASSIGNED, ev |-> << >>,
     instant |-> DRONE_TRAVEL_INSTANT, config |-> CONFIG]

StoreData(w) ==
    /\ SATELLITES' = w.sats
    /\ BATTERIES' = w.bats
    /\ SAT_CLAIM' = w.claim
    /\ TASK_QUEUE' = w.queue
    /\ ASSIGNED' = w.assigned
    /\ events' = w.ev
    /\ UNCHANGED <<DRONE_TRAVEL_INSTANT, CONFIG>>

Store(w) == StoreData(w) /\ UNCHANGED services

Init ==
    /\ SATELLITES \in SeedWorlds
    /\ BATTERIES = SeedDrones
    /\ SAT_CLAIM = [s \in 1 .. Len(SATELLITES) |-> NoOwner]
    /\ TASK_QUEUE = << >>
    /\ ASSIGNED = << >>
    /\ DRONE_TRAVEL_INSTANT \in BOOLEAN
    /\ CONFIG = DefaultConfig
    /\ events = << >>
    /\ response = NoResponse
    /\ pc = "assign_pending"
    /\ ticks = 0
    /\ created = 0
    /\ Started

\* core/scheduler.py _loop: the three stages of one tick, each under the lock
AssignPendingUpTo(max) ==
    /\ pc = "assign_pending"
    /\ ticks < max
    /\ Store(assign_pending(World))
    /\ response' = NoResponse
    /\ pc' = "advance_tick"
    /\ UNCHANGED <<ticks, created>>

AssignPending == AssignPendingUpTo(MaxTicks)

AdvanceTick ==
    /\ pc = "advance_tick"
    /\ Store(advance_tick(World, 1))
    /\ response' = NoResponse
    /\ pc' = "route"
    /\ UNCHANGED <<ticks, created>>

Route ==
    /\ pc = "route"
    /\ Store(route(World))
    /\ response' = NoResponse
    /\ pc' = "assign_pending"
    /\ ticks' = ticks + 1
    /\ UNCHANGED created

\* routes/tasks.py create_task
TaskInputs ==
    { [energy_need |-> 500, processing_power_needed |-> 100,
       priority |-> "low"],
      [energy_need |-> 10, processing_power_needed |-> 3000,
       priority |-> "high"] }

CreateTaskOf(inputs, max) ==
    /\ created < max
    /\ \E t \in inputs :
          /\ TASK_QUEUE' = Append(TASK_QUEUE,
                              Task(created + 1, t.energy_need,
                                   t.processing_power_needed, t.priority))
          /\ response' = [code |-> 200, launched |-> << >>]
    /\ created' = created + 1
    /\ events' = << >>
    /\ UNCHANGED <<SATELLITES, BATTERIES, SAT_CLAIM, ASSIGNED,
                   DRONE_TRAVEL_INSTANT, CONFIG, pc, ticks>>
    /\ UNCHANGED services

CreateTaskUpTo(max) == CreateTaskOf(TaskInputs, max)

CreateTask == CreateTaskUpTo(MaxTasks)

\* routes/control.py launch; target 0 names no satellite of the store
Launch ==
    \E count \in 1 .. MaxCount, target \in 0 .. Len(SATELLITES) :
       /\ Len(BATTERIES) + NewDrones(BATTERIES, count) <= MaxDrones
       /\ LET r == launch(World, count, target)
          IN  /\ Store(r.w)
              /\ response' = r.response
       /\ UNCHANGED <<pc, ticks, created>>

Next == AssignPending \/ AdvanceTick \/ Route \/ CreateTask \/ Launch

Spec == Init /\ [][Next]_vars

\* The tick loop with task submission as the only API call, for the
\* properties of the delegator: more tasks, no manual launch.
SubmitTask == CreateTaskUpTo(MaxQueued)

NextDelegator == AssignPending \/ AdvanceTick \/ Route \/ SubmitTask

SpecDelegator == Init /\ [][NextDelegator]_vars

(***************************************************************************)
(* A long run under a steady load.  The store is seeded as seed_state      *)
(* seeds it: four satellites with its energies, capacities and solar       *)
(* rates, two of them placed at (0, 180) and two at (60, 0), and two       *)
(* idle drones at Earth; DRONE_TRAVEL_INSTANT is set.  A client posts a    *)
(* batch of BatchSize small tasks before every BatchPeriod-th tick and     *)
(* nobody launches a drone.  The run is deterministic.                     *)
(***************************************************************************)
BatchPeriod == 10
BatchSize == 3

SeedSatellites ==
    << Satellite(9000, 2500, 45, 2), Satellite(6500, 1800, 35, 2),
       Satellite(4000, 2200, 40, 3), Satellite(7500, 2000, 38, 3) >>

InitLoad ==
    /\ SATELLITES = SeedSatellites
    /\ BATTERIES = SeedDrones
    /\ SAT_CLAIM = [s \in 1 .. Len(SATELLITES) |-> NoOwner]
    /\ TASK_QUEUE = << >>
    /\ ASSIGNED = << >>
    /\ DRONE_TRAVEL_INSTANT = TRUE
    /\ CONFIG = DefaultConfig
    /\ events = << >>
    /\ response = NoResponse
    /\ pc = "assign_pending"
    /\ ticks = 0
    /\ created = 0
    /\ Started

\* the number of tasks posted once the batch due before this tick is in
BatchDue == BatchSize * ((ticks \div BatchPeriod) + 1)

SubmitBatch ==
    /\ pc = "assign_pending"
    /\ ticks < MaxLoadTicks
    /\ ticks % BatchPeriod = 0
    /\ CreateTaskOf({[energy_need |-> 500, processing_power_needed |-> 100,
                      priority |-> "low"]}, BatchDue)

AssignPendingLoaded ==
    /\ ticks % BatchPeriod = 0 => created = BatchDue
    /\ AssignPendingUpTo(MaxLoadTicks)

NextLoad == SubmitBatch \/ AssignPendingLoaded \/ AdvanceTick \/ Route

SpecLoad == InitLoad /\ [][NextLoad]_vars

(***************************************************************************)
(* The tick loop running for ever, for the travel of the drones: no API    *)
(* call, no tick counter.  The store holds one satellite five ticks of     *)
(* travel away or two satellites five and two ticks away; travel is        *)
(* instant or multi-tick; DRONE_ENROUTE_MAX_TICKS is the default 8, which  *)
(* no trip reaches at DRONE_SPEED_KM_PER_TICK (the longest trip takes 5    *)
(* ticks), or ShortBudget.  The scheduler thread never stops, hence the    *)
(* fairness.                                                               *)
(***************************************************************************)
ShortBudget == 3

TravelWorlds ==
    { << Satellite(12000, 2500, 45, 2) >>,
      << Satellite(4800, 2500, 45, 2), Satellite(11600, 1800, 35, 1) >> }

InitTravel ==
    /\ SATELLITES \in TravelWorlds
    /\ BATTERIES = SeedDrones
    /\ SAT_CLAIM = [s \in 1 .. Len(SATELLITES) |-> NoOwner]
    /\ TASK_QUEUE = << >>
    /\ ASSIGNED = << >>
    /\ DRONE_TRAVEL_INSTANT \in BOOLEAN
    /\ CONFIG \in {DefaultConfig,
                  [DefaultConfig EXCEPT !.DRONE_ENROUTE_MAX_TICKS = ShortBudget]}
    /\ events = << >>
    /\ response = NoResponse
    /\ pc = "assign_pending"
    /\ ticks = 0
    /\ created = 0
    /\ Started

RoutePass ==
    /\ pc = "route"
    /\ Store(route(World))
    /\ response' = NoResponse
    /\ pc' = "assign_pending"
    /\ UNCHANGED <<ticks, created>>

NextTravel == AssignPending \/ AdvanceTick \/ RoutePass

\* the scheduler thread moves on to its next stage: every stage terminates
\* and the loop has no exit
SchedulerStep ==
    /\ pc' \in {"assign_pending", "advance_tick", "route"}
    /\ pc' # pc

SpecTravel == InitTravel /\ [][NextTravel]_vars /\ WF_pc(SchedulerStep)

(***************************************************************************)
(* The API with its request bodies.  routes/tasks.py builds the task from  *)
(* the fields of the JSON body before it takes the lock: the constructor   *)
(* raises when a required field of models.Task is missing, and takes       *)
(* task_id from the body when the body has one.  A body is modelled by the *)
(* set of the fields it has and their values.                              *)
(***************************************************************************)
MaxPosted == 2

RequiredFields == {"energy_need", "processing_power_needed", "priority"}

Body(present, id, need, pp, prio) ==
    [present |-> present, task_id |-> id, energy_need |-> need,
     processing_power_needed |-> pp, priority |-> prio]

Bodies ==
    { Body(RequiredFields, 0, 10, 100, "high"),
      Body(RequiredFields \cup {"task_id"}, 1, 30, 100, "high"),
      Body({"energy_need", "processing_power_needed"}, 0, 10, 100, ""),
      Body({"task_id"}, 1, 0, 0, "") }

\* create_task without the validation of the body
create_task_unvalidated(w, data, fresh) ==
    LET id == IF "task_id" \in data.present THEN data.task_id ELSE fresh
    IN  [w |-> [w EXCEPT !.queue =
                   Append(@, Task(id, data.energy_need,
                                  data.processing_power_needed,
                                  data.priority))],
         response |-> [code |-> 200, launched |-> << >>]]

\* routes/tasks.py create_task; fresh is the identity the default factory
\* of models.Task would draw
create_task(w, data, fresh) ==
    IF ~(RequiredFields \subseteq data.present)
    THEN [w |-> w, response |-> [code |-> 500, launched |-> << >>]]
    ELSE LET id == IF "task_id" \in data.present THEN data.task_id
                   ELSE fresh
         IN  [w |-> [w EXCEPT !.queue =
                        Append(@, Task(id, data.energy_need,
                                       data.processing_power_needed,
                                       data.priority))],
              response |-> [code |-> 200, launched |-> << >>]]

PostTask ==
    /\ created < MaxPosted
    /\ \E data \in Bodies :
          LET r == create_task(World, data, created + 1)
          IN  /\ Store(r.w)
              /\ response' = r.response
    /\ created' = created + 1
    /\ UNCHANGED <<pc, ticks>>

\* the API calls during the first ticks
MaxApiTicks == 2

NextApi ==
    AssignPendingUpTo(MaxApiTicks) \/ AdvanceTick \/ Route \/ PostTask
       \/ Launch

SpecApi == Init /\ [][NextApi]_vars

\* task submissions while the tick loop runs for ever
NextTasks == AssignPending \/ AdvanceTick \/ RoutePass \/ PostTask

SpecTasks == Init /\ [][NextTasks]_vars /\ WF_pc(SchedulerStep)

(***************************************************************************)
(* A burst of task submissions: more tasks than one satellite may hold,    *)
(* each long enough to stay on its satellite for the whole run (a task of  *)
(* energy_need 5 takes 50 ticks).  The submissions arrive between ticks;   *)
(* the delegator sees the same queue wherever in the tick they arrive.     *)
(***************************************************************************)
MaxBurst == 32
MaxBurstTicks == 2

PostBurst ==
    /\ pc = "assign_pending"
    /\ CreateTaskOf({[energy_need |-> 500, processing_power_needed |-> 100,
                      priority |-> "low"]}, MaxBurst)

NextBurst ==
    AssignPendingUpTo(MaxBurstTicks) \/ AdvanceTick \/ Route \/ PostBurst

SpecBurst == Init /\ [][NextBurst]_vars

(***************************************************************************)
(* Arrivals at a satellite that has changed since the dispatch.  Two       *)
(* depleted satellites drain the payloads of the two drones while a third  *)
(* rises past HARVEST_START_LEVEL; a client posts a burst of tasks between *)
(* two ticks, whose burn outweighs the solar gain of the third satellite.  *)
(***************************************************************************)
MaxArrivalTicks == 18
ArrivalBurst == 14

ArrivalWorlds ==
    { << Satellite(500, 2500, 45, 3), Satellite(800, 2000, 38, 2),
         Satellite(7520, 1800, 35, 1) >> }

InitArrival ==
    /\ SATELLITES \in ArrivalWorlds
    /\ BATTERIES = SeedDrones
    /\ SAT_CLAIM = [s \in 1 .. Len(SATELLITES) |-> NoOwner]
    /\ TASK_QUEUE = << >>
    /\ ASSIGNED = << >>
    /\ DRONE_TRAVEL_INSTANT \in BOOLEAN
    /\ CONFIG = DefaultConfig
    /\ events = << >>
    /\ response = NoResponse
    /\ pc = "assign_pending"
    /\ ticks = 0
    /\ created = 0
    /\ Started

\* the next tick starts when no burst is under way
AssignPendingAfterBurst ==
    /\ created \in {0, ArrivalBurst}
    /\ AssignPendingUpTo(MaxArrivalTicks)

PostArrivalBurst ==
    /\ pc = "assign_pending"
    /\ CreateTaskOf({[energy_need |-> 500, processing_power_needed |-> 100,
                      priority |-> "low"]}, ArrivalBurst)

NextArrival ==
    AssignPendingAfterBurst \/ AdvanceTick \/ Route \/ PostArrivalBurst

SpecArrival == InitArrival /\ [][NextArrival]_vars

(***************************************************************************)
(* The economics engine under a caller of process_energy_transfer: the     *)
(* source is a satellite of the store or Earth (None), the buyer a drone   *)
(* of the store.  The store itself is left alone.                          *)
(***************************************************************************)
MaxTransfers == 2

TransferAmounts == {0, 800, 1250}

TransferTypes == {"charge", "harvest"}

InitEconomics == Init

Transfer ==
    /\ Len(ECONOMICS.transactions) < MaxTransfers
    /\ \E from_sat \in {EARTH} \cup (1 .. Len(SATELLITES)),
          to_drone \in 1 .. Len(BATTERIES),
          amount \in TransferAmounts,
          transfer_type \in TransferTypes :
          LET r == process_energy_transfer(ECONOMICS, SATELLITES, from_sat,
                                           to_drone, amount, transfer_type)
          IN  /\ ECONOMICS' = r.eco
              /\ events' = r.ev
    /\ response' = NoResponse
    /\ UNCHANGED <<SATELLITES, BATTERIES, SAT_CLAIM, TASK_QUEUE, ASSIGNED,
                   DRONE_TRAVEL_INSTANT, CONFIG, pc, ticks, created,
                   _running, tick_stages, MONITOR>>

NextEconomics == Transfer

SpecEconomics == InitEconomics /\ [][NextEconomics]_vars

(***************************************************************************)
(* The loop thread, statement by statement.  core/scheduler.py is the      *)
(* module create_app starts; core/equilibrum_monitor.py is the same loop   *)
(* with MONITOR.record_tick as a fourth stage and with stop().  pc is the  *)
(* statement the thread is at: "idle" before start(), "while" at the test  *)
(* of the flag, the name of a call of the try block, "sleep", and          *)
(* "returned" once the loop has been left.  tick_stages lists the calls    *)
(* of the latest tick, and "except" when the handler ran; the first call   *)
(* of a tick starts the list anew.  A call that raises does so before it   *)
(* has changed anything or after it has made all its changes.              *)
(***************************************************************************)
MaxLoopTicks == 3

SchedulerStages == <<"assign_pending", "advance_tick", "route", "emit_event">>

MonitorStages ==
    <<"assign_pending", "advance_tick", "route", "record_tick", "emit_event">>

Statements ==
    {"idle", "while", "sleep", "returned", "assign_pending", "advance_tick",
     "route", "record_tick", "emit_event"}

StageIndex(stages, pos) == CHOOSE i \in 1 .. Len(stages) : stages[i] = pos

\* a raised exception leaves the loop
_loop_next_uncaught(stages, pos, raised, running) ==
    IF pos = "while" THEN (IF running THEN stages[1] ELSE "returned")
    ELSE IF pos = "sleep" THEN "while"
    ELSE IF raised THEN "returned"
    ELSE IF StageIndex(stages, pos) = Len(stages) THEN "sleep"
    ELSE stages[StageIndex(stages, pos) + 1]

\* the flag is also tested after every call of the try block
_loop_next_interruptible(stages, pos, raised, running) ==
    IF pos = "while" THEN (IF running THEN stages[1] ELSE "returned")
    ELSE IF pos = "sleep" THEN "while"
    ELSE IF raised \/ ~running THEN "sleep"
    ELSE IF StageIndex(stages, pos) = Len(stages) THEN "sleep"
    ELSE stages[StageIndex(stages, pos) + 1]

\* the statement after pos: while _running / try ... except Exception / sleep
_loop_next(stages, pos, raised, running) ==
    IF pos = "while" THEN (IF running THEN stages[1] ELSE "returned")
    ELSE IF pos = "sleep" THEN "while"
    ELSE IF raised THEN "sleep"
    ELSE IF StageIndex(stages, pos) = Len(stages) THEN "sleep"
    ELSE stages[StageIndex(stages, pos) + 1]

\* the store, the monitor and the events after the call at pos
StageCall(pos) ==
    IF pos = "assign_pending"
    THEN LET w == assign_pending(World)
         IN  [w |-> w, mon |-> MONITOR, ev |-> w.ev]
    ELSE IF pos = "advance_tick"
    THEN LET w == advance_tick(World, 1)
         IN  [w |-> w, mon |-> MONITOR, ev |-> w.ev]
    ELSE IF pos = "route"
    THEN LET w == route(World)
         IN  [w |-> w, mon |-> MONITOR, ev |-> w.ev]
    ELSE IF pos = "record_tick"
    THEN LET r == record_tick(MONITOR, World)
         IN  [w |-> World, mon |-> r.mon, ev |-> r.ev]
    ELSE [w |-> World, mon |-> MONITOR,
          ev |-> <<Event("tick", 0, 0, 0, "")>>]

Outcomes == {"returns", "raises_before", "raises_after"}

LoopTest(stages, max) ==
    /\ pc = "while"
    /\ _running => ticks < max
    /\ pc' = _loop_next(stages, pc, FALSE, _running)
    /\ events' = << >>
    /\ response' = NoResponse
    /\ UNCHANGED <<SATELLITES, BATTERIES, SAT_CLAIM, TASK_QUEUE, ASSIGNED,
                   DRONE_TRAVEL_INSTANT, CONFIG, ticks, created, _running,
                   tick_stages, MONITOR, ECONOMICS>>

LoopStage(stages) ==
    /\ \E i \in 1 .. Len(stages) : pc = stages[i]
    /\ \E outcome \in Outcomes :
          LET r == StageCall(pc)
              done == outcome # "raises_before"
              raised == outcome # "returns"
          IN  /\ StoreData([(IF done THEN r.w ELSE World)
                               EXCEPT !.ev = IF done THEN r.ev ELSE << >>])
              /\ MONITOR' = IF done THEN r.mon ELSE MONITOR
              /\ tick_stages' =
                     (IF pc = stages[1] THEN << >> ELSE tick_stages)
                         \o (IF raised THEN <<pc, "except">> ELSE <<pc>>)
              /\ pc' = _loop_next(stages, pc, raised, _running)
    /\ response' = NoResponse
    /\ UNCHANGED <<ticks, created, _running, ECONOMICS>>

LoopSleep(stages) ==
    /\ pc = "sleep"
    /\ pc' = _loop_next(stages, pc, FALSE, _running)
    /\ ticks' = ticks + 1
    /\ events' = << >>
    /\ response' = NoResponse
    /\ UNCHANGED <<SATELLITES, BATTERIES, SAT_CLAIM, TASK_QUEUE, ASSIGNED,
                   DRONE_TRAVEL_INSTANT, CONFIG, created, _running,
                   tick_stages, MONITOR, ECONOMICS>>

\* the thread executes its next statement; the run is cut off before the
\* tick after the last one modelled
LoopStep(max) ==
    /\ pc \notin {"idle", "returned"}
    /\ (pc = "while" /\ _running) => ticks < max
    /\ pc' \in Statements
    /\ pc' # pc

\* core/scheduler.py as create_app leaves it: started, no stop()
InitLoop ==
    /\ SATELLITES \in SeedWorlds
    /\ BATTERIES = SeedDrones
    /\ SAT_CLAIM = [s \in 1 .. Len(SATELLITES) |-> NoOwner]
    /\ TASK_QUEUE = << >>
    /\ ASSIGNED = << >>
    /\ DRONE_TRAVEL_INSTANT = FALSE
    /\ CONFIG = DefaultConfig
    /\ events = << >>
    /\ response = NoResponse
    /\ pc = "while"
    /\ ticks = 0
    /\ created = 0
    /\ Started

SchedulerTest == LoopTest(SchedulerStages, MaxLoopTicks)

SchedulerStage == LoopStage(SchedulerStages)

SchedulerSleep == LoopSleep(SchedulerStages)

NextScheduler == SchedulerTest \/ SchedulerStage \/ SchedulerSleep

SpecScheduler ==
    InitLoop /\ [][NextScheduler]_vars /\ WF_pc(LoopStep(MaxLoopTicks))

\* core/equilibrum_monitor.py under a controller that calls start() and
\* stop(), and start() again only once the thread of the last run has ended
InitMonitorLoop ==
    /\ SATELLITES \in SeedWorlds
    /\ BATTERIES = SeedDrones
    /\ SAT_CLAIM = [s \in 1 .. Len(SATELLITES) |-> NoOwner]
    /\ TASK_QUEUE = << >>
    /\ ASSIGNED = << >>
    /\ DRONE_TRAVEL_INSTANT = FALSE
    /\ CONFIG = DefaultConfig
    /\ events = << >>
    /\ response = NoResponse
    /\ pc = "idle"
    /\ ticks = 0
    /\ created = 0
    /\ _running = FALSE
    /\ tick_stages = << >>
    /\ MONITOR = NewMonitor
    /\ ECONOMICS = NewEconomics

start ==
    /\ ~_running
    /\ pc \in {"idle", "returned"}
    /\ _running' = TRUE
    /\ pc' = "while"
    /\ events' = << >>
    /\ response' = NoResponse
    /\ UNCHANGED <<SATELLITES, BATTERIES, SAT_CLAIM, TASK_QUEUE, ASSIGNED,
                   DRONE_TRAVEL_INSTANT, CONFIG, ticks, created, tick_stages,
                   MONITOR, ECONOMICS>>

\* the join only delays the caller
stop ==
    /\ _running
    /\ _running' = FALSE
    /\ events' = << >>
    /\ response' = NoResponse
    /\ UNCHANGED <<SATELLITES, BATTERIES, SAT_CLAIM, TASK_QUEUE, ASSIGNED,
                   DRONE_TRAVEL_INSTANT, CONFIG, pc, ticks, created,
                   tick_stages, MONITOR, ECONOMICS>>

MonitorTest == LoopTest(MonitorStages, MaxLoopTicks)

MonitorStage == LoopStage(MonitorStages)

MonitorSleep == LoopSleep(MonitorStages)

NextMonitorLoop ==
    start \/ stop \/ MonitorTest \/ MonitorStage \/ MonitorSleep

SpecMonitorLoop ==
    InitMonitorLoop /\ [][NextMonitorLoop]_vars
        /\ WF_pc(LoopStep(MaxLoopTicks))

(***************************************************************************)
(* Tasks on a satellite that runs out of energy.  One satellite five ticks *)
(* of travel away holds just the energy to accept tasks; before the first  *)
(* tick a client posts a burst of tasks whose burn outweighs the solar     *)
(* gain: one short task, and long ones whose energy need is met at the     *)
(* moment progress reaches 1.0 or outlasts it.  The loop runs for ever;    *)
(* ticks counts the ticks completed and stays at MaxStarveTicks once it    *)
(* has reached it.                                                         *)
(***************************************************************************)
MaxStarveTicks == 251
StarveBurst == 24

StarveWorlds == { << Satellite(1000, 2500, 45, 2) >> }

StarveInput(id) ==
    [energy_need |-> IF id = 1 THEN 10
                     ELSE IF id % 2 = 0 THEN 500 ELSE 100000,
     processing_power_needed |-> 100, priority |-> "low"]

InitStarve ==
    /\ SATELLITES \in StarveWorlds
    /\ BATTERIES = SeedDrones
    /\ SAT_CLAIM = [s \in 1 .. Len(SATELLITES) |-> NoOwner]
    /\ TASK_QUEUE = << >>
    /\ ASSIGNED = << >>
    /\ DRONE_TRAVEL_INSTANT \in BOOLEAN
    /\ CONFIG = DefaultConfig
    /\ events = << >>
    /\ response = NoResponse
    /\ pc = "assign_pending"
    /\ ticks = 0
    /\ created = 0
    /\ Started

PostStarveBurst ==
    /\ pc = "assign_pending"
    /\ ticks = 0
    /\ CreateTaskOf({StarveInput(created + 1)}, StarveBurst)

AssignPendingStarve ==
    /\ created \in {0, StarveBurst}
    /\ AssignPendingUpTo(MaxStarveTicks + 1)

RouteCounted ==
    /\ pc = "route"
    /\ Store(route(World))
    /\ response' = NoResponse
    /\ pc' = "assign_pending"
    /\ ticks' = Min2(ticks + 1, MaxStarveTicks)
    /\ UNCHANGED created

NextStarve ==
    PostStarveBurst \/ AssignPendingStarve \/ AdvanceTick \/ RouteCounted

SpecStarve == InitStarve /\ [][NextStarve]_vars /\ WF_pc(SchedulerStep)

(***************************************************************************)
(* Mission selection and automatic dispatch.  The tick loop with manual    *)
(* launches and no tasks, over the seeded worlds, a world whose two         *)
(* satellites reach the same energy at the first tick and one whose        *)
(* second satellite is the lower; the deployment ships                     *)
(* AUTO_DISPATCH_ENABLED set or clears it in config.py.                    *)
(***************************************************************************)
MaxMissionTicks == 3

MissionWorlds ==
    SeedWorlds \cup
      { << Satellite(4790, 2500, 45, 3), Satellite(4800, 1800, 35, 1) >>,
        \* depleted satellites, the second the lower
        << Satellite(900, 2500, 45, 3), Satellite(600, 1800, 35, 1) >> }

InitMission ==
    /\ SATELLITES \in MissionWorlds
    /\ BATTERIES = SeedDrones
    /\ SAT_CLAIM = [s \in 1 .. Len(SATELLITES) |-> NoOwner]
    /\ TASK_QUEUE = << >>
    /\ ASSIGNED = << >>
    /\ DRONE_TRAVEL_INSTANT \in BOOLEAN
    /\ CONFIG \in {DefaultConfig,
                  [DefaultConfig EXCEPT !.AUTO_DISPATCH_ENABLED = FALSE]}
    /\ events = << >>
    /\ response = NoResponse
    /\ pc = "assign_pending"
    /\ ticks = 0
    /\ created = 0
    /\ Started

NextMission ==
    AssignPendingUpTo(MaxMissionTicks) \/ AdvanceTick \/ Route \/ Launch

SpecMission == InitMission /\ [][NextMission]_vars

(***************************************************************************)
(* The loop of core/equilibrum_monitor.py over many ticks, no stage        *)
(* raising: assign_pending, advance_tick, route, then MONITOR.record_tick  *)
(* under the lock.  The store is a seeded world, a world of three          *)
(* depleted satellites for the two drones, or the store of seed_state      *)
(* itself; no API call is made.  ticks counts the ticks whose sample has   *)
(* been recorded.                                                          *)
(***************************************************************************)
MaxEquilibriumTicks == 100

InitEquilibrium ==
    /\ SATELLITES \in
          SeedWorlds \cup
            { SeedSatellites,
              << Satellite(500, 2500, 45, 3), Satellite(800, 2000, 38, 2),
                 Satellite(600, 1800, 35, 1) >> }
    /\ BATTERIES = SeedDrones
    /\ SAT_CLAIM = [s \in 1 .. Len(SATELLITES) |-> NoOwner]
    /\ TASK_QUEUE = << >>
    /\ ASSIGNED = << >>
    /\ DRONE_TRAVEL_INSTANT \in BOOLEAN
    /\ CONFIG = DefaultConfig
    /\ events = << >>
    /\ response = NoResponse
    /\ pc = "assign_pending"
    /\ ticks = 0
    /\ created = 0
    /\ Started

RouteThenRecord ==
    /\ pc = "route"
    /\ Store(route(World))
    /\ response' = NoResponse
    /\ pc' = "record_tick"
    /\ UNCHANGED <<ticks, created>>

RecordTick ==
    /\ pc = "record_tick"
    /\ LET r == record_tick(MONITOR, World)
       IN  /\ MONITOR' = r.mon
           /\ events' = r.ev
    /\ response' = NoResponse
    /\ pc' = "assign_pending"
    /\ ticks' = ticks + 1
    /\ UNCHANGED <<SATELLITES, BATTERIES, SAT_CLAIM, TASK_QUEUE, ASSIGNED,
                   DRONE_TRAVEL_INSTANT, CONFIG, created, _running,
                   tick_stages, ECONOMICS>>

NextEquilibrium ==
    AssignPendingUpTo(MaxEquilibriumTicks) \/ AdvanceTick \/ RouteThenRecord
       \/ RecordTick

SpecEquilibrium == InitEquilibrium /\ [][NextEquilibrium]_vars

(***************************************************************************)
(* Properties.                                                             *)
(***************************************************************************)
Sats == 1 .. Len(SATELLITES)
Drones == 1 .. Len(BATTERIES)

EventsOf(type) == {i \in 1 .. Len(events) : events[i].type = type}

\* C1: every satellite's energy stays within 0 .. max_energy, whatever the
\* sequence of delegator passes, satellite ticks, orchestration passes,
\* task submissions and manual launches.
C1_SatelliteEnergyBounds ==
    \A s \in Sats :
        /\ 0 <= SATELLITES[s].energy_amount
        /\ SATELLITES[s].energy_amount <= SATELLITES[s].max_energy

\* A charging transfer has just filled a satellite to its capacity.
C1_Witness ==
    \E i \in EventsOf("drone.charged") :
        SATELLITES[events[i].satellite_id].energy_amount
            = SATELLITES[events[i].satellite_id].max_energy

\* C2 (as claimed): every drone's reserve stays within
\* 0 .. DRONE_RESERVE_MAX, whatever courses have been set.
C2_ReserveBounds ==
    \A d \in Drones :
        /\ 0 <= BATTERIES[d].reserve_battery
        /\ BATTERIES[d].reserve_battery <= DRONE_RESERVE_MAX

\* C3: every drone's payload stays within 0 .. DRONE_PAYLOAD_MAX.
C3_PayloadBounds ==
    \A d \in Drones :
        /\ 0 <= BATTERIES[d].battery
        /\ BATTERIES[d].battery <= DRONE_PAYLOAD_MAX

\* A harvesting transfer has just filled a drone's payload to its capacity.
C3_Witness ==
    \E i \in EventsOf("drone.harvested") :
        /\ events[i].amount > 0
        /\ BATTERIES[events[i].battery_id].battery = DRONE_PAYLOAD_MAX

\* C4: on every reachable claim table, try_claim_sat(sat, d) succeeds exactly
\* when sat is unclaimed or claimed by d and then records d as the owner of
\* sat and changes no other entry; otherwise it fails and changes nothing;
\* and a second call with the same drone succeeds and changes nothing more.
C4_TryClaim ==
    \A s \in Sats, d \in Drones :
        LET r == try_claim_sat(SAT_CLAIM, s, d)
            again == try_claim_sat(r.claim, s, d)
        IN  /\ r.ok <=> SAT_CLAIM[s] \in {NoOwner, d}
            /\ r.ok => /\ r.claim[s] = d
                       /\ \A t \in Sats \ {s} : r.claim[t] = SAT_CLAIM[t]
                       /\ again.ok
                       /\ again.claim = r.claim
            /\ ~r.ok => r.claim = SAT_CLAIM

\* The orchestrator has claimed a satellite for one drone while another
\* drone exists: both the refusal and the idempotent re-claim are exercised.
C4_Witness ==
    \E s \in Sats, d \in Drones :
        /\ SAT_CLAIM[s] = d
        /\ \E e \in Drones : e # d
        /\ \E i \in EventsOf("drone.enroute") : events[i].battery_id = d

OnMission(b, s) ==
    TargetsSat(b, s) /\ b.status \in {"enroute", "charging", "harvesting"}

\* C5 (as claimed): drone d owns the claim on satellite s if and only if d
\* targets s in status enroute, charging or harvesting.
C5_ClaimIffMission ==
    \A s \in Sats, d \in Drones :
        SAT_CLAIM[s] = d <=> OnMission(BATTERIES[d], s)

\* C6 (as claimed): no satellite has one drone charging it and a different
\* drone harvesting it at the same time.
C6_NoChargeWhileHarvest ==
    ~\E s \in Sats, c \in Drones, h \in Drones :
        /\ c # h
        /\ BATTERIES[c].status = "charging" /\ TargetsSat(BATTERIES[c], s)
        /\ BATTERIES[h].status = "harvesting" /\ TargetsSat(BATTERIES[h], s)

\* C7 (as claimed): at most AUTO_MAX_DRONES_PER_SAT drones are in status
\* charging on the same satellite.
C7_ChargerCap ==
    \A s \in Sats :
        Cardinality({d \in Drones :
                        BATTERIES[d].status = "charging"
                        /\ TargetsSat(BATTERIES[d], s)})
            <= AUTO_MAX_DRONES_PER_SAT

\* C8: a drone is the recorded owner of at most one satellite's claim.
C8_OneClaimPerDrone ==
    \A d \in Drones : Cardinality({s \in Sats : SAT_CLAIM[s] = d}) <= 1

\* In one orchestration pass a drone has completed its mission at satellite
\* t, where it still stands, and mission selection has given it the claim on
\* another satellite s, to which it is now on its way; it owns no other claim.
C8_Witness ==
    \E d \in Drones, s \in Sats, t \in Sats :
        /\ s # t
        /\ SAT_CLAIM[s] = d
        /\ SAT_CLAIM[t] # d
        /\ BATTERIES[d].position = SATELLITES[t].position
        /\ BATTERIES[d].position # SATELLITES[s].position
        /\ OnMission(BATTERIES[d], s)
        /\ \E i \in EventsOf("drone.charging_complete")
                      \cup EventsOf("drone.harvesting_complete") :
               /\ events[i].battery_id = d
               /\ events[i].satellite_id = t
        /\ \E i \in EventsOf("drone.enroute") :
               /\ events[i].battery_id = d
               /\ events[i].satellite_id = s

\* the energy satellite s has gained (charged) less lost (harvested) in the
\* first k events of an orchestration pass
RECURSIVE SatDelta(_, _, _)
SatDelta(ev, s, k) ==
    IF k = 0 THEN 0
    ELSE SatDelta(ev, s, k - 1)
         + (IF ev[k].satellite_id = s /\ ev[k].type = "drone.charged"
            THEN ev[k].amount
            ELSE IF ev[k].satellite_id = s /\ ev[k].type = "drone.harvested"
            THEN 0 - ev[k].amount
            ELSE 0)

\* C9: in every orchestration pass each charging transfer of g takes exactly
\* g from the drone's payload and adds exactly g to the satellite, with
\* g <= min(charge rate, payload, deficit); each harvesting transfer of t
\* adds exactly t to the payload and takes exactly t from the satellite,
\* with t <= min(harvest rate, free capacity, energy above HARVEST_FLOOR);
\* and a satellite's energy changes by the sum of its transfers only.
C9_TransfersConserveEnergy ==
    [][(pc = "route" /\ pc' = "assign_pending") =>
         /\ \A s \in Sats :
               SATELLITES'[s].energy_amount =
                  SATELLITES[s].energy_amount
                  + SatDelta(events', s, Len(events'))
         /\ \A i \in 1 .. Len(events') :
               LET e == events'[i]
                   d == e.battery_id
                   s == e.satellite_id
                   before == SATELLITES[s].energy_amount
                             + SatDelta(events', s, i - 1)
               IN  /\ e.type = "drone.charged" =>
                         /\ e.amount > 0
                         /\ BATTERIES'[d].battery
                               = BATTERIES[d].battery - e.amount
                         /\ e.amount <= DRONE_PAYLOAD_CHARGE_RATE
                         /\ e.amount <= BATTERIES[d].battery
                         /\ e.amount <= SATELLITES[s].max_energy - before
                   /\ e.type = "drone.harvested" =>
                         /\ e.amount > 0
                         /\ BATTERIES'[d].battery
                               = BATTERIES[d].battery + e.amount
                         /\ e.amount <= DRONE_HARVEST_RATE
                         /\ e.amount
                               <= DRONE_PAYLOAD_MAX - BATTERIES[d].battery
                         /\ e.amount <= before - HARVEST_FLOOR
      ]_vars

\* A pass in which a drone has harvested from a satellite, which is left
\* below its capacity and at or above the harvest floor.
C9_Witness ==
    \E i \in EventsOf("drone.harvested") :
        LET s == SATELLITES[events[i].satellite_id]
        IN  /\ s.energy_amount < s.max_energy
            /\ s.energy_amount >= HARVEST_FLOOR

Rejects(sats, task) ==
    \A s \in 1 .. Len(sats) : _score(sats[s], task) < -100000000

\* C10: the delegator assigns tasks in queue order only: the tasks a step
\* assigns are a prefix of the queue and the queue keeps the rest, so no
\* task is assigned while an earlier one is still queued; and when no
\* satellite is eligible for the head task, assign_pending assigns nothing
\* and leaves the queue as it was.
C10_NoOvertaking ==
    [][LET newly == (DOMAIN ASSIGNED') \ (DOMAIN ASSIGNED)
       IN  /\ \A u \in newly : \A i \in 1 .. Len(TASK_QUEUE') :
                 TASK_QUEUE'[i].task_id > u
           /\ (pc = "assign_pending" /\ pc' = "advance_tick") =>
                 \E k \in 0 .. Len(TASK_QUEUE) :
                    /\ TASK_QUEUE' = SubSeq(TASK_QUEUE, k + 1, Len(TASK_QUEUE))
                    /\ newly = {TASK_QUEUE[j].task_id : j \in 1 .. k}
           /\ ( /\ pc = "assign_pending" /\ pc' = "advance_tick"
                /\ TASK_QUEUE # << >>
                /\ Rejects(SATELLITES, Head(TASK_QUEUE)) ) =>
                 /\ TASK_QUEUE' = TASK_QUEUE
                 /\ ASSIGNED' = ASSIGNED
                 /\ SATELLITES' = SATELLITES
      ]_vars

\* assign_pending has just run with two tasks queued and no satellite
\* eligible for the head task: both are still queued.
C10_Witness ==
    /\ pc = "advance_tick"
    /\ Len(TASK_QUEUE) >= 2
    /\ Rejects(SATELLITES, Head(TASK_QUEUE))
    /\ ASSIGNED = << >>

\* the task needs more processing power than any satellite has, while every
\* satellite has the energy to accept a task and a free task slot
Oversized(sats, task) ==
    \A s \in 1 .. Len(sats) :
        /\ task.processing_power_needed > sats[s].processing_capacity
        /\ sats[s].energy_amount >= MIN_ENERGY_TO_ACCEPT
        /\ Len(sats[s].current_tasks) < MAX_TASKS_PER_SAT

\* C11 (as claimed): when the head of the queue needs more processing power
\* than the capacity of every satellite, assign_pending does not assign it:
\* it is still the head of the queue after the delegator pass and is not in
\* the assignment index.
C11_OversizedTaskStaysQueued ==
    [][( /\ pc = "assign_pending" /\ pc' = "advance_tick"
         /\ TASK_QUEUE # << >>
         /\ Oversized(SATELLITES, Head(TASK_QUEUE)) ) =>
            /\ TASK_QUEUE' # << >>
            /\ Head(TASK_QUEUE') = Head(TASK_QUEUE)
            /\ Head(TASK_QUEUE).task_id \notin DOMAIN ASSIGNED'
      ]_vars

Travelling(d) == BATTERIES[d].status \in {"enroute", "returning"}

\* the last handler has emitted an event of one of the types for drone d
DroneEvent(d, types) ==
    \E i \in 1 .. Len(events) :
        events[i].battery_id = d /\ events[i].type \in types

\* Drone d has arrived in the last orchestration pass: it has been refilled
\* at Earth, has started to charge or to harvest at its satellite, or, its
\* satellite being unsuitable, has been given its next course on the spot.
Arrived(d) ==
    DroneEvent(d, {"drone.recharged", "drone.charging_start",
                   "drone.harvesting_start", "drone.enroute"})

\* C12 (as claimed): under repeated orchestration passes every drone in
\* status enroute or returning eventually arrives; a drone that timeout
\* recovery has put in status returning reaches Earth, where it is refilled
\* and mission selection runs for it.
C12_TravellingDronesArrive ==
    \A d \in 1 .. 2 :
        /\ Travelling(d) ~> Arrived(d)
        /\ DroneEvent(d, {"drone.timeout_recovery"})
              ~> DroneEvent(d, {"drone.recharged"})

\* the drone is still on its way and its en-route counter reaches the budget
\* in the coming pass
TimesOut(b) ==
    /\ ~DRONE_TRAVEL_INSTANT
    /\ b.status \in {"enroute", "returning"}
    /\ b.target.kind \in {"satellite", "earth"}
    /\ b.eta_ticks > 0
    /\ b.enroute_ticks + 1 >= CONFIG.DRONE_ENROUTE_MAX_TICKS

\* C13: in multi-tick mode the orchestration pass in which a travelling
\* drone's en-route counter reaches DRONE_ENROUTE_MAX_TICKS before arrival
\* leaves the drone without a claim, at its home base, with payload
\* DRONE_PAYLOAD_MAX and reserve DRONE_RESERVE_MAX, in status returning with
\* the Earth target, and reports the recovery.
C13_TimeoutRecovery ==
    [][pc = "route" /\ pc' = "assign_pending" =>
         \A d \in Drones :
            TimesOut(BATTERIES[d]) =>
               /\ \A s \in Sats : SAT_CLAIM'[s] # d
               /\ BATTERIES'[d].position = BATTERIES[d].home_base
               /\ BATTERIES'[d].battery = DRONE_PAYLOAD_MAX
               /\ BATTERIES'[d].reserve_battery = DRONE_RESERVE_MAX
               /\ BATTERIES'[d].status = "returning"
               /\ BATTERIES'[d].target = EarthTarget
               /\ \E i \in 1 .. Len(events') :
                     /\ events'[i].type = "drone.timeout_recovery"
                     /\ events'[i].battery_id = d
      ]_vars

\* A drone that was on its way to a satellite it had claimed, away from
\* home, has just been recovered: the satellite is free or taken by another
\* drone, and the drone is at home, refilled, returning.
C13_Witness ==
    \E d \in Drones :
        /\ DroneEvent(d, {"drone.timeout_recovery"})
        /\ BATTERIES[d].status = "returning"
        /\ BATTERIES[d].position = BATTERIES[d].home_base
        /\ BATTERIES[d].eta_ticks > 0
        /\ BATTERIES[d].enroute_ticks = CONFIG.DRONE_ENROUTE_MAX_TICKS
        /\ \A s \in Sats : SAT_CLAIM[s] # d

\* a step of an API handler (task submission or manual launch): the tick
\* stages leave no response
ApiStep == response' # NoResponse

\* C14 (as claimed): no API operation takes effect inside a tick, that is
\* after the tick's first stage (assign_pending) has started and before its
\* last stage (route) has ended; API operations are applied between ticks
\* only.
C14_ApiOnlyBetweenTicks ==
    [][ApiStep => pc = "assign_pending"]_vars

\* C15 (as claimed): a manual launch of one drone toward a satellite s of
\* the store that no other drone has claimed leaves the drone as mission
\* selection's dispatch to s leaves it: status enroute, target s, the claim
\* on s held by the drone, reserve reduced by the reserve cost of the trip,
\* dwell and en-route counters 0, and ETA 0 in instant mode or the
\* distance/speed tick count in multi-tick mode.
C15_LaunchAsMissionSelection ==
    [][(response'.code = 200 /\ Len(response'.launched) = 1) =>
         LET d == response'.launched[1]
             s == events'[1].satellite_id
             reserve == IF d <= Len(BATTERIES)
                        THEN BATTERIES[d].reserve_battery
                        ELSE DRONE_RESERVE_MAX
             dkm == haversine_km(BATTERIES'[d].position,
                                 SATELLITES[s].position)
         IN  SAT_CLAIM[s] \in {NoOwner, d} =>
               /\ BATTERIES'[d].status = "enroute"
               /\ BATTERIES'[d].target = SatTarget(s)
               /\ SAT_CLAIM'[s] = d
               /\ BATTERIES'[d].reserve_battery =
                     reserve - _reserve_cost_km(dkm)
               /\ BATTERIES'[d].dwell_ticks = 0
               /\ BATTERIES'[d].enroute_ticks = 0
               /\ BATTERIES'[d].eta_ticks =
                     IF DRONE_TRAVEL_INSTANT THEN 0
                     ELSE Max2(1, dkm \div DRONE_SPEED_KM_PER_TICK)
      ]_vars

NotFound == [code |-> 404, launched |-> << >>]

Malformed(data) == ~(RequiredFields \subseteq data.present)

\* C16: invalid external input is rejected with an error and no mutation.
\* In every state a launch naming a satellite that is not in the store
\* answers 404 and a task submission lacking a required field answers with
\* an error, both leaving the store as it is; and every API step that
\* answers with an error leaves satellites, drones, the claim table, the
\* task queue and the assignment index unchanged.
C16_InvalidInputRejected ==
    [][/\ \A count \in 1 .. MaxCount :
             launch(World, count, 0) = [w |-> World, response |-> NotFound]
       /\ \A data \in Bodies :
             Malformed(data) =>
                LET r == create_task(World, data, created + 1)
                IN  r.w = World /\ r.response.code >= 400
       /\ (ApiStep /\ response'.code # 200) =>
             UNCHANGED <<SATELLITES, BATTERIES, SAT_CLAIM, TASK_QUEUE,
                         ASSIGNED>>
      ]_vars

\* A launch against an unknown satellite has just been refused while an
\* idle drone stood at Earth, ready to be retargeted, and a task submitted
\* earlier was waiting in the queue.
C16_Witness ==
    /\ response = NotFound
    /\ TASK_QUEUE # << >>
    /\ \E d \in Drones : BATTERIES[d].status = "at_earth"

\* A task submission lacking a required field has just been refused while
\* a task submitted earlier was waiting in the queue.
C16_MalformedRefused ==
    /\ response.code = 500
    /\ Len(TASK_QUEUE) = 1

\* Scenario A: one satellite at 40% of max_energy (40% or more and less
\* than 41%), unclaimed, and the two seeded drones idle at Earth with
\* payload and reserve full.
ScenarioA ==
    /\ Len(SATELLITES) = 1
    /\ (SATELLITES[1].energy_amount * 100) \div SATELLITES[1].max_energy = 40
    /\ BATTERIES = SeedDrones
    /\ SAT_CLAIM = << NoOwner >>

\* the outcome of Scenario A in the store w
Dispatched(w) ==
    \E d \in 1 .. Len(w.bats) :
        /\ w.bats[d].status = "enroute"
        /\ w.bats[d].target = SatTarget(1)
        /\ w.claim = << d >>

Reported(w, type, d, s, reason) ==
    \E i \in 1 .. Len(w.ev) :
        /\ w.ev[i].type = type
        /\ w.ev[i].battery_id = d
        /\ w.ev[i].satellite_id = s
        /\ w.ev[i].reason = reason

\* C18: a drone that is in status charging when its turn comes in an
\* orchestration pass, its satellite being within SAT_FULL_EPS of
\* max_energy at that moment, stops in its turn with reason "full": its
\* payload and the satellite's energy are as before the turn, the drone
\* does not hold the claim on the satellite after it, mission selection has
\* given it another status, and it ends the pass with that status.
C18_ChargingStopsAtFull ==
    pc = "route" =>
      \A d \in Drones :
         LET w == AtTurn(World, d)
             b == w.bats[d]
             s == b.target.satellite_id
         IN  ( /\ b.status = "charging"
               /\ b.target.kind = "satellite"
               /\ SatFull(w.sats[s]) ) =>
                LET w2 == RouteDrone(w, d)
                    end == route(World)
                IN  /\ Reported(w2, "drone.charging_complete", d, s, "full")
                    /\ w2.bats[d].battery = b.battery
                    /\ w2.sats[s].energy_amount = w.sats[s].energy_amount
                    /\ w2.claim[s] # d
                    /\ w2.bats[d].status \in {"enroute", "returning"}
                    /\ end.bats[d] = w2.bats[d]
                    /\ end.claim[s] # d

\* A pass has just stopped a charging drone at a full satellite: the stop
\* is reported with reason "full", the satellite is within SAT_FULL_EPS of
\* max_energy, the drone has left for another mission and does not hold the
\* claim.
C18_Witness ==
    \E d \in Drones, s \in Sats :
        /\ pc = "assign_pending"
        /\ Reported([ev |-> events], "drone.charging_complete", d, s, "full")
        /\ SatFull(SATELLITES[s])
        /\ BATTERIES[d].status \in {"enroute", "returning"}
        /\ BATTERIES[d].target # SatTarget(s)
        /\ SAT_CLAIM[s] # d

TasksOn(s) == SATELLITES[s].current_tasks

\* the identity is in the assignment index or in a satellite's task list
Listed(id) ==
    \/ id \in DOMAIN ASSIGNED
    \/ \E s \in Sats : \E i \in 1 .. Len(TasksOn(s)) :
          TasksOn(s)[i].task_id = id

\* the last satellite tick has removed a task of this identity
Removed(id) ==
    \E i \in 1 .. Len(events) :
        events[i].type = "task.completed" /\ events[i].battery_id = id

\* the tasks of this identity on satellite s
Named(s, id) == {i \in 1 .. Len(TasksOn(s)) : TasksOn(s)[i].task_id = id}

\* the progress of the tasks that stay on their satellite does not decrease
\* in a satellite tick (a task is followed by its identity, where the
\* identity names one task of the satellite)
ProgressMonotonic ==
    (pc = "advance_tick" /\ pc' = "route") =>
       \A s \in Sats :
          \A i \in 1 .. Len(TasksOn(s)) :
             \A j \in 1 .. Len(SATELLITES'[s].current_tasks) :
                ( /\ Cardinality(Named(s, TasksOn(s)[i].task_id)) = 1
                  /\ SATELLITES'[s].current_tasks[j].task_id
                        = TasksOn(s)[i].task_id )
                   => SATELLITES'[s].current_tasks[j].progress
                         >= TasksOn(s)[i].progress

\* C19 (as claimed): task completion is monotonic: the progress of a task
\* on a satellite never decreases from one tick to the next, and once a
\* task has been removed from a satellite's list its identity never again
\* appears in the assignment index or in any satellite's task list.
C19_TaskCompletionMonotonic ==
    /\ [][ProgressMonotonic]_vars
    /\ \A id \in 1 .. MaxPosted : [](Removed(id) => [](~Listed(id)))

\* C20: in every reachable state every satellite has at most
\* MAX_TASKS_PER_SAT tasks in progress, however many tasks have been
\* submitted and whatever the sequence of delegator passes and satellite
\* ticks.
C20_TaskCap ==
    \A s \in Sats : Len(SATELLITES[s].current_tasks) <= MAX_TASKS_PER_SAT

\* The delegator has just run with more tasks submitted than a satellite
\* may hold: a satellite able to accept tasks holds MAX_TASKS_PER_SAT of
\* them and the rest is still queued.
C20_Witness ==
    /\ pc = "advance_tick"
    /\ TASK_QUEUE # << >>
    /\ \E s \in Sats :
          /\ Len(SATELLITES[s].current_tasks) = MAX_TASKS_PER_SAT
          /\ SATELLITES[s].energy_amount >= MIN_ENERGY_TO_ACCEPT

\* C21: in every state visible outside the lock, status and target of a
\* drone agree: charging and harvesting go with a target naming a satellite
\* of the store, returning with the Earth target, enroute with a satellite
\* or the Earth target, standby and at_earth with no target.
C21_StatusTargetConsistent ==
    \A d \in Drones :
        LET b == BATTERIES[d]
        IN  /\ b.status \in {"charging", "harvesting"} =>
                 b.target.kind = "satellite" /\ b.target.satellite_id \in Sats
            /\ b.status = "returning" => b.target = EarthTarget
            /\ b.status = "enroute" =>
                 \/ b.target = EarthTarget
                 \/ b.target.kind = "satellite"
                    /\ b.target.satellite_id \in Sats
            /\ b.status \in {"standby", "at_earth"} => b.target = NoTarget

\* Every status but standby is on view at once: after a manual launch one
\* drone charges or harvests at its satellite, one is on its way to a
\* satellite and one returns to Earth.
C21_Witness ==
    /\ \E d \in Drones : BATTERIES[d].status \in {"charging", "harvesting"}
    /\ \E d \in Drones : BATTERIES[d].status = "enroute"
    /\ \E d \in Drones : BATTERIES[d].status = "returning"
    /\ response.code = 200 /\ response.launched # << >>

\* C25: on every reachable claim table, release_sat(sat, d) removes the claim
\* on sat when d is its owner and only then; when sat is unclaimed or owned
\* by another drone the table is left as it was; the claim on any other
\* satellite is never affected.
C25_ReleaseSat ==
    \A s \in Sats, d \in Drones :
        LET r == release_sat(SAT_CLAIM, s, d)
        IN  /\ SAT_CLAIM[s] = d => r[s] = NoOwner
            /\ SAT_CLAIM[s] # d => r = SAT_CLAIM
            /\ \A t \in Sats \ {s} : r[t] = SAT_CLAIM[t]

\* A drone that was launched to a satellite owned by another drone has just
\* ended its charge there and let go of it: the release by a drone that is
\* not the owner has acted, and the owner still holds the claim.
C25_Witness ==
    \E s \in Sats, d, e \in Drones :
        /\ SAT_CLAIM[s] = d
        /\ e # d
        /\ \E i \in EventsOf("drone.charging_complete") :
               events[i].battery_id = e /\ events[i].satellite_id = s

Idle(b) == b.status \in {"standby", "at_earth"} /\ b.target = NoTarget

\* C27 (as claimed): at the end of every orchestration pass no drone that is
\* not out of service has status standby or at_earth, and every drone that
\* was idle when the pass began or that arrived at Earth during the pass ends
\* the pass enroute to a satellite it has claimed or returning to Earth.
C27_NoIdleTickWasted ==
    [][pc = "route" /\ pc' = "assign_pending" =>
         \A d \in 1 .. Len(BATTERIES') :
            LET b == BATTERIES'[d]
                selected ==
                    \/ d \in Drones /\ Idle(BATTERIES[d])
                    \/ \E i \in 1 .. Len(events') :
                          /\ events'[i].type = "drone.recharged"
                          /\ events'[i].battery_id = d
            IN  /\ b.status \notin {"standby", "at_earth"}
                /\ selected =>
                     \/ b.status = "returning" /\ b.target = EarthTarget
                     \/ /\ b.status = "enroute"
                        /\ b.target.kind = "satellite"
                        /\ SAT_CLAIM'[b.target.satellite_id] = d
      ]_vars

\* C27 (as amended): at the end of every orchestration pass no drone has
\* status standby or at_earth, and every drone that was idle
\* when the pass began or that arrived at Earth during the pass ends the
\* pass returning to Earth, enroute to a satellite it has claimed, or, when
\* auto-dispatch sent it and it reached the satellite within the same pass,
\* charging or harvesting at a satellite it has claimed.
C27_NoIdleDroneLeft ==
    [][pc = "route" /\ pc' = "assign_pending" =>
         \A d \in 1 .. Len(BATTERIES') :
            LET b == BATTERIES'[d]
                selected ==
                    \/ d \in Drones /\ Idle(BATTERIES[d])
                    \/ \E i \in 1 .. Len(events') :
                          /\ events'[i].type = "drone.recharged"
                          /\ events'[i].battery_id = d
                dispatched ==
                    \E i \in 1 .. Len(events') :
                       /\ events'[i].type = "drone.auto_dispatched"
                       /\ events'[i].battery_id = d
            IN  /\ b.status \notin {"standby", "at_earth"}
                /\ selected =>
                     \/ b.status = "returning" /\ b.target = EarthTarget
                     \/ /\ b.status = "enroute"
                        /\ b.target.kind = "satellite"
                        /\ SAT_CLAIM'[b.target.satellite_id] = d
                     \/ /\ dispatched
                        /\ b.status \in {"charging", "harvesting"}
                        /\ b.target.kind = "satellite"
                        /\ SAT_CLAIM'[b.target.satellite_id] = d
      ]_vars

\* A pass has just ended in which one drone arrived at Earth, was refilled
\* and sent out again to a satellite it has claimed.
C27_Witness ==
    /\ pc = "assign_pending"
    /\ \E d \in Drones :
          /\ DroneEvent(d, {"drone.recharged"})
          /\ BATTERIES[d].status = "enroute"
          /\ BATTERIES[d].battery = DRONE_PAYLOAD_MAX
          /\ BATTERIES[d].target.kind = "satellite"
          /\ SAT_CLAIM[BATTERIES[d].target.satellite_id] = d

\* two different drones are charging satellite s at the same time
TwoChargers(s) ==
    \E d, e \in Drones :
        /\ d # e
        /\ BATTERIES[d].status = "charging" /\ TargetsSat(BATTERIES[d], s)
        /\ BATTERIES[e].status = "charging" /\ TargetsSat(BATTERIES[e], s)

\* C28 (as claimed): with no manual launch, the cap of two chargers for a
\* satellite and two drones carrying a payload of PAYLOAD_CHARGE_MIN or more,
\* the scheduler's ticks lead to a state in which two different drones are
\* charging the same satellite.
C28_SecondChargerAdmitted ==
    <>(\E s \in Sats : TwoChargers(s))

\* in store w drone d is on its way to a satellite and its turn completes
\* the trip: travel is instant, or the last tick of the trip is due and the
\* en-route budget is not spent
ArrivesAtSatellite(w, d) ==
    LET b == w.bats[d]
    IN  /\ b.status \in {"enroute", "returning"}
        /\ b.target.kind = "satellite"
        /\ b.target.satellite_id \in SatIds(w)
        /\ \/ w.instant
           \/ /\ b.eta_ticks = 1
              /\ b.enroute_ticks + 1 < w.config.DRONE_ENROUTE_MAX_TICKS

\* a transfer by drone d is reported in store w
Transferred(w, d) ==
    \E i \in 1 .. Len(w.ev) :
        /\ w.ev[i].type \in {"drone.charged", "drone.harvested"}
        /\ w.ev[i].battery_id = d

\* C29: a drone whose turn in an orchestration pass completes its trip to
\* its target satellite becomes charging when its payload is at least
\* PAYLOAD_CHARGE_MIN and the satellite is below max_energy - SAT_FULL_EPS;
\* otherwise harvesting when the satellite's energy is at least
\* HARVEST_START_LEVEL; otherwise it gives up its claim and mission selection
\* sends it elsewhere.  In the first two outcomes it keeps its target with
\* dwell_ticks 0; in the pass of the arrival no energy is transferred.
C29_ArrivalAtSatellite ==
    pc = "route" =>
      \A d \in Drones :
         LET w == AtTurn(World, d)
             b == w.bats[d]
             s == b.target.satellite_id
         IN  ArrivesAtSatellite(w, d) =>
               LET w2 == RouteDrone(w, d)
                   end == route(World)
                   a == w2.bats[d]
                   charge == /\ b.battery >= PAYLOAD_CHARGE_MIN
                             /\ w.sats[s].energy_amount <
                                  w.sats[s].max_energy - SAT_FULL_EPS
                   harvest == w.sats[s].energy_amount >= HARVEST_START_LEVEL
               IN  /\ charge =>
                        /\ a.status = "charging"
                        /\ a.target = SatTarget(s) /\ a.dwell_ticks = 0
                   /\ ~charge /\ harvest =>
                        /\ a.status = "harvesting"
                        /\ a.target = SatTarget(s) /\ a.dwell_ticks = 0
                   /\ ~charge /\ ~harvest =>
                        /\ w2.claim[s] # d
                        /\ a.status \in {"enroute", "returning"}
                        /\ a.target # SatTarget(s)
                        /\ \E i \in 1 .. Len(w2.ev) :
                              /\ w2.ev[i].type = "drone.enroute"
                              /\ w2.ev[i].battery_id = d
                              /\ i > Len(w.ev)
                   /\ w2.sats = w.sats
                   /\ a.battery = b.battery
                   /\ end.bats[d] = a
                   /\ ~Transferred(end, d)

\* A pass has just ended in which a drone with less than PAYLOAD_CHARGE_MIN
\* reached a satellite that had fallen below HARVEST_START_LEVEL since the
\* dispatch: with neither a transfer ended nor a refill at Earth nor an
\* auto-dispatch in the pass, the drone has been given a new course, away
\* from that satellite, whose claim it does not hold.
C29_Witness ==
    /\ pc = "assign_pending"
    /\ \E d \in Drones, s \in Sats :
          /\ BATTERIES[d].battery < PAYLOAD_CHARGE_MIN
          /\ BATTERIES[d].position = SATELLITES[s].position
          /\ SATELLITES[s].energy_amount < HARVEST_START_LEVEL
          /\ SAT_CLAIM[s] # d
          /\ BATTERIES[d].status \in {"enroute", "returning"}
          /\ BATTERIES[d].target # SatTarget(s)
          /\ DroneEvent(d, {"drone.enroute"})
          /\ ~DroneEvent(d, {"drone.charging_complete",
                             "drone.harvesting_complete", "drone.recharged",
                             "drone.auto_dispatched"})

\* C30 (as claimed): whatever the wall-clock hour of a satellite tick, its
\* solar step raises a satellite's energy by solar_gen_rate times the
\* daylight factor of the satellite's longitude at that hour, up to
\* max_energy; at local night it adds nothing.
C30_SolarScalesWithDaylight ==
    pc = "advance_tick" =>
      \A now \in Hours, s \in Sats :
         LET sat == SATELLITES[s]
             k == _daylight_factor(Longitude(sat.position), now)
             gain == SolarGeneration(sat, now) - sat.energy_amount
         IN  IF 1000 * (sat.max_energy - sat.energy_amount)
                   <= sat.solar_gen_rate * k
             THEN gain = sat.max_energy - sat.energy_amount
             ELSE 1000 * gain = sat.solar_gen_rate * k

\* C24: a transfer whose source is Earth appends a transaction with unit
\* price 0 and total cost 0, whatever the amount, and leaves every
\* satellite's total_revenue and total_energy_sold, every drone's
\* total_spent and total_energy_bought and the traded volume as they were.
EarthTransfer ==
    /\ Len(ECONOMICS'.transactions) = Len(ECONOMICS.transactions) + 1
    /\ ECONOMICS'.transactions[Len(ECONOMICS'.transactions)].from_entity_id
           = EARTH

C24_EarthTransferIsFree ==
    [][EarthTransfer =>
          LET txn == ECONOMICS'.transactions[Len(ECONOMICS'.transactions)]
          IN  /\ txn.price_per_unit = 0
              /\ txn.total_cost = 0
              /\ ECONOMICS'.total_revenue = ECONOMICS.total_revenue
              /\ ECONOMICS'.total_energy_sold = ECONOMICS.total_energy_sold
              /\ ECONOMICS'.total_spent = ECONOMICS.total_spent
              /\ ECONOMICS'.total_energy_bought
                     = ECONOMICS.total_energy_bought
              /\ ECONOMICS'.total_volume_sol = ECONOMICS.total_volume_sol]_vars

\* a paid transfer from a satellite is followed by an Earth transfer of a
\* positive amount to the same drone
C24_Witness ==
    /\ Len(ECONOMICS.transactions) = 2
    /\ ECONOMICS.transactions[1].from_entity_id # EARTH
    /\ ECONOMICS.transactions[1].total_cost > 0
    /\ ECONOMICS.transactions[2].from_entity_id = EARTH
    /\ ECONOMICS.transactions[2].energy_amount > 0
    /\ ECONOMICS.transactions[2].to_entity_id
           = ECONOMICS.transactions[1].to_entity_id
    /\ ECONOMICS.total_volume_sol > 0

\* C22: an exception raised by a call of the try block is caught by the
\* loop: the thread leaves the loop only with the flag cleared, and after a
\* tick in which a call raised the thread sleeps and makes the first call
\* of the next tick, unless the flag has been cleared meanwhile.
StageRaised ==
    /\ Len(tick_stages) > 0
    /\ tick_stages[Len(tick_stages)] = "except"

C22_FailureNeverHaltsLoop ==
    /\ [](pc = "returned" => ~_running)
    /\ [][StageRaised' /\ ~StageRaised => pc' = "sleep"]_vars
    /\ \A n \in 0 .. MaxLoopTicks - 2 :
          (StageRaised /\ pc = "sleep" /\ ticks = n)
              ~> ((pc = "assign_pending" /\ ticks = n + 1) \/ ~_running)

\* the first call of a tick is about to be made and the tick before it
\* ended in the handler
C22_Witness ==
    /\ _running
    /\ pc = "assign_pending"
    /\ ticks >= 1
    /\ StageRaised

\* C23: every tick of the scheduler create_app starts, in which no call
\* raises, calls assign_pending, advance_tick, route and
\* EquilibriumMonitor.record_tick, in this order, each once.
IsStage(call) == call # "emit_event"

C23_FourStagesEveryTick ==
    (pc = "sleep" /\ ~StageRaised)
        => SelectSeq(tick_stages, IsStage)
               = <<"assign_pending", "advance_tick", "route", "record_tick">>

\* C26: the flag is read at the while test only.  With the flag cleared, a
\* thread inside a tick makes the call it is at and goes on to the next one
\* (to the sleep after the last one or after a raise); a tick is started
\* only with the flag set; the loop is left only from the while test with
\* the flag cleared; and a started thread whose flag is cleared returns.
InTick == \E i \in 1 .. Len(MonitorStages) : pc = MonitorStages[i]

Successor(call) ==
    IF StageIndex(MonitorStages, call) = Len(MonitorStages) THEN "sleep"
    ELSE MonitorStages[StageIndex(MonitorStages, call) + 1]

Attached(id) == \E s \in Sats : Named(s, id) # {}

\* the progress of a starved task in one satellite tick, and the number of
\* such ticks that brings progress from 0 to 1.0
Crawl == TASK_PROGRESS_RATE \div 5
CrawlTicks == (1000 + Crawl - 1) \div Crawl

\* the satellite ticks completed so far (MaxStarveTicks: that many or more)
SatTicks == IF pc = "route" THEN Min2(ticks + 1, MaxStarveTicks) ELSE ticks

\* a satellite tick removes a task or raises its progress by Crawl or more,
\* and a task it leaves on the satellite is short of progress 1.0
TaskAdvances ==
    (pc = "advance_tick" /\ pc' = "route") =>
       \A s \in Sats : \A i \in 1 .. Len(TasksOn(s)) :
          \A j \in 1 .. Len(SATELLITES'[s].current_tasks) :
             LET t == TasksOn(s)[i]
                 u == SATELLITES'[s].current_tasks[j]
             IN  u.task_id = t.task_id =>
                   /\ u.progress >= t.progress + Crawl
                   /\ u.progress < 1000

\* C31: every task attached to a satellite is eventually completed and
\* removed, whatever the satellite's energy: each satellite tick removes it
\* or raises its progress by at least TASK_PROGRESS_RATE x 0.2, starved or
\* not, so that no task is attached for more than
\* ceil(1 / (TASK_PROGRESS_RATE x 0.2)) satellite ticks.
C31_TasksNeverStall ==
    /\ [][TaskAdvances]_vars
    /\ [](\A s \in Sats : \A i \in 1 .. Len(TasksOn(s)) :
             /\ TasksOn(s)[i].progress >= Crawl * SatTicks
             /\ SatTicks < CrawlTicks)
    /\ \A id \in 1 .. StarveBurst : Attached(id) ~> ~Attached(id)

\* A satellite tick has just removed a task later than a task that is fed
\* in every tick is removed: the task was starved on its way.
C31_Witness ==
    /\ pc = "route"
    /\ ticks >= 1000 \div TASK_PROGRESS_RATE
    /\ \E id \in 1 .. StarveBurst : Removed(id)

\* the energy of satellite s when the loop of its tick comes to its i-th task
TurnEnergy(s, i) ==
    ProcessTasks(SubSeq(TasksOn(s), 1, i - 1), 1,
                 [energy |-> SolarStep(SATELLITES[s]), kept |-> << >>,
                  done |-> << >>]).energy

\* the tasks of satellite s after the update of the coming satellite tick
UpdatedTasks(s) ==
    [i \in 1 .. Len(TasksOn(s)) |->
        TaskStep(TurnEnergy(s, i), TasksOn(s)[i]).task]

Finished(u) == u.progress >= 1000 \/ u.remaining_energy <= 0

Unfinished(u) == ~Finished(u)

\* the identities of the tasks the coming satellite tick finishes
FinishedIds ==
    UNION {{UpdatedTasks(s)[i].task_id :
               i \in {j \in 1 .. Len(TasksOn(s)) :
                         Finished(UpdatedTasks(s)[j])}} : s \in Sats}

\* C32: a satellite tick removes a task from its satellite's list if and
\* only if, after the tick's update, its progress is >= 1.0 or its remaining
\* energy is <= 0: the list after the tick is the updated tasks that meet
\* neither condition, in their order.  The same step takes the removed
\* identities out of the assignment index and leaves every other entry of
\* the index as it was.
C32_RemovedIffFinished ==
    [][(pc = "advance_tick" /\ pc' = "route") =>
         /\ \A s \in Sats :
               SATELLITES'[s].current_tasks
                   = SelectSeq(UpdatedTasks(s), Unfinished)
         /\ \A id \in FinishedIds : id \notin DOMAIN ASSIGNED'
         /\ \A id \in (DOMAIN ASSIGNED) \ FinishedIds :
               id \in DOMAIN ASSIGNED' /\ ASSIGNED'[id] = ASSIGNED[id]
      ]_vars

\* A satellite tick has just removed a task whose energy need is far from
\* met (progress has reached 1.0), while another task stays on the satellite
\* with its index entry; the short task of the burst is gone since the tick
\* that met its energy need, long before its progress could reach 1.0.
C32_Witness ==
    /\ pc = "route"
    /\ created = StarveBurst
    /\ \E id \in 3 .. StarveBurst :
          /\ StarveInput(id).energy_need > 1000 * TASK_ENERGY_RATE
          /\ Removed(id)
          /\ id \notin DOMAIN ASSIGNED
    /\ \E s \in Sats : \E i \in 1 .. Len(TasksOn(s)) :
          /\ Unfinished(TasksOn(s)[i])
          /\ TasksOn(s)[i].task_id \in DOMAIN ASSIGNED
          /\ ASSIGNED[TasksOn(s)[i].task_id] = s
    /\ ~Attached(1) /\ 1 \notin DOMAIN ASSIGNED

\* the number of tasks on satellite x when a delegator pass, whose
\* assignments are reported in ev, comes to its k-th assignment
LenAt(x, ev, k) ==
    Len(TasksOn(x)) + Cardinality({j \in 1 .. k - 1 : ev[j].satellite_id = x})

\* satellite x at that moment, its tasks reduced to their number
SatAt(x, ev, k) ==
    [SATELLITES[x] EXCEPT !.current_tasks = [i \in 1 .. LenAt(x, ev, k) |-> 0]]

\* C33: whenever assign_pending assigns a task to satellite s, at that moment
\* s has energy_amount >= MIN_ENERGY_TO_ACCEPT and fewer than
\* MAX_TASKS_PER_SAT tasks, and no satellite has a strictly higher score for
\* the task; the task leaves the queue, is appended to s's task list with
\* progress 0 and remaining energy equal to its energy need, and the
\* assignment index records it as assigned to s.  Nothing else changes.
C33_AssignmentIsBestEligible ==
    [][(pc = "assign_pending" /\ pc' = "advance_tick") =>
         LET ev == events'
             n == Len(ev)
         IN  /\ n <= Len(TASK_QUEUE)
             /\ TASK_QUEUE' = SubSeq(TASK_QUEUE, n + 1, Len(TASK_QUEUE))
             /\ \A k \in 1 .. n :
                   LET task == TASK_QUEUE[k]
                       s == ev[k].satellite_id
                       list == SATELLITES'[s].current_tasks
                   IN  /\ ev[k].type = "task.assigned"
                       /\ ev[k].battery_id = task.task_id
                       /\ s \in Sats
                       /\ SATELLITES[s].energy_amount >= MIN_ENERGY_TO_ACCEPT
                       /\ LenAt(s, ev, k) < MAX_TASKS_PER_SAT
                       /\ \A x \in Sats :
                             _score(SatAt(x, ev, k), task)
                                <= _score(SatAt(s, ev, k), task)
                       /\ list[LenAt(s, ev, k) + 1] =
                             [task_id |-> task.task_id,
                              remaining_energy |-> task.energy_need,
                              progress |-> 0,
                              pp_need |-> task.processing_power_needed,
                              priority |-> task.priority]
                       /\ task.task_id \in DOMAIN ASSIGNED'
                       /\ ASSIGNED'[task.task_id] = s
             /\ \A x \in Sats :
                   /\ Len(SATELLITES'[x].current_tasks) = LenAt(x, ev, n + 1)
                   /\ SubSeq(SATELLITES'[x].current_tasks, 1, Len(TasksOn(x)))
                         = TasksOn(x)
                   /\ SATELLITES'[x] =
                         [SATELLITES[x] EXCEPT !.current_tasks =
                             SATELLITES'[x].current_tasks]
             /\ \A id \in DOMAIN ASSIGNED :
                   id \in DOMAIN ASSIGNED'
                   /\ (ASSIGNED'[id] # ASSIGNED[id] =>
                         \E k \in 1 .. n : TASK_QUEUE[k].task_id = id)
             /\ UNCHANGED <<BATTERIES, SAT_CLAIM>>
      ]_vars

\* A delegator pass has just spread a burst over two satellites: the tasks
\* of one pass went to both, each to the satellite whose score was highest
\* when its turn came, and both satellites hold tasks of progress 0.
C33_Witness ==
    /\ pc = "advance_tick"
    /\ \E i, j \in EventsOf("task.assigned") :
          /\ i < j
          /\ events[i].satellite_id # events[j].satellite_id
          /\ \E k \in 1 .. i - 1 :
                events[k].satellite_id = events[j].satellite_id
    /\ \A s \in Sats :
          /\ TasksOn(s) # << >>
          /\ TasksOn(s)[Len(TasksOn(s))].progress = 0

(***************************************************************************)
(* Mission selection (core/orchestrator_batteries.py).  Stores(d) are the  *)
(* stores on which the searches are put to the test for drone d: the       *)
(* store of the state and, during a routing pass, the store when the loop  *)
(* comes to d.                                                             *)
(***************************************************************************)
Stores(d) ==
    {World} \cup (IF pc = "route" THEN {AtTurn(World, d)} ELSE {})

\* the drones other than d that are charging satellite s
OtherChargers(w, d, s) ==
    {b \in DroneIds(w) \ {d} :
        w.bats[b].status = "charging" /\ w.bats[b].target = SatTarget(s)}

\* d keeps the reserve floor after the flight to s
KeepsFloor(w, d, s) ==
    w.bats[d].reserve_battery
       - haversine_km(w.bats[d].position, w.sats[s].position)
            * DRONE_RESERVE_PER_KM
       >= DRONE_RESERVE_MIN_TO_CONTINUE

Chargeable(w, d) ==
    {s \in SatIds(w) :
        /\ w.sats[s].energy_amount < w.sats[s].max_energy - SAT_FULL_EPS
        /\ KeepsFloor(w, d, s)
        /\ Cardinality(OtherChargers(w, d, s)) < AUTO_MAX_DRONES_PER_SAT}

ChargingSearchAgrees(w, d) ==
    LET r == _find_charging_target(w, d)
        c == Chargeable(w, d)
    IN  /\ r = 0 <=> c = {}
        /\ r # 0 =>
              /\ r \in c
              /\ \A t \in c :
                    /\ w.sats[r].energy_amount <= w.sats[t].energy_amount
                    /\ w.sats[r].energy_amount = w.sats[t].energy_amount =>
                          Cardinality(OtherChargers(w, d, r))
                             <= Cardinality(OtherChargers(w, d, t))

\* mission selection leaves d en route to the charging target only with
\* the claim of that satellite, which nobody else held
ChargesOnlyWithClaim(w, d) ==
    LET r == _choose_next_mission(w, d)
        ct == _find_charging_target(w, d)
    IN  (ct # 0 /\ r.bats[d].status = "enroute"
           /\ r.bats[d].target = SatTarget(ct)) =>
            /\ r.claim[ct] = d
            /\ w.claim[ct] \in {NoOwner, d}

\* the drones a routing pass set on course to a satellite and left en route
SetOnCourse ==
    {e \in {events'[i] : i \in 1 .. Len(events')} :
        /\ e.type = "drone.enroute"
        /\ e.satellite_id # 0
        /\ BATTERIES'[e.battery_id].status = "enroute"
        /\ BATTERIES'[e.battery_id].target = SatTarget(e.satellite_id)}

\* C34: the charging-target search returns no target exactly when no
\* satellite is at once below max_energy - SAT_FULL_EPS, reachable with the
\* reserve floor kept, and charged by fewer than AUTO_MAX_DRONES_PER_SAT
\* other drones; otherwise it returns a satellite of minimum energy among
\* those candidates, ties broken by the smaller number of current chargers.
\* A drone is sent en route to charge only if the claim of that satellite is
\* then acquired.
C34_ChargingTargetSearch ==
    /\ [](\A d \in Drones : \A w \in Stores(d) :
             ChargingSearchAgrees(w, d) /\ ChargesOnlyWithClaim(w, d))
    /\ [][(pc = "route" /\ pc' = "assign_pending") =>
             \A e \in SetOnCourse : SAT_CLAIM'[e.satellite_id] = e.battery_id
         ]_vars

\* A routing pass has come to a drone while two satellites hold the same
\* energy, both are candidates, and another drone is charging the first of
\* them: the search returns the second, the one with fewer chargers.
C34_Witness ==
    /\ pc = "route"
    /\ \E d \in Drones :
          LET w == AtTurn(World, d)
              r == _find_charging_target(w, d)
          IN  \E t \in Chargeable(w, d) :
                 /\ t < r
                 /\ w.sats[t].energy_amount = w.sats[r].energy_amount
                 /\ OtherChargers(w, d, t) # {}
                 /\ OtherChargers(w, d, r) = {}
                 /\ _choose_next_mission(w, d).claim[r] = d

\* the satellites the claim lets drone d harvest from
Harvestable(w, d) ==
    {s \in SatIds(w) :
        /\ w.sats[s].energy_amount >= HARVEST_START_LEVEL
        /\ KeepsFloor(w, d, s)
        /\ ~\E b \in DroneIds(w) :
              w.bats[b].status = "charging" /\ w.bats[b].target = SatTarget(s)
        /\ ~\E b \in DroneIds(w) \ {d} :
              /\ w.bats[b].status = "harvesting"
              /\ w.bats[b].target = SatTarget(s)}

\* mission selection does not send d home and does not send it to charge:
\* it comes to the search for a harvest source
ComesToHarvest(w, d) ==
    LET ct == _find_charging_target(w, d)
    IN  /\ ~_should_go_to_earth(w, d)
        /\ \/ w.bats[d].battery < PAYLOAD_CHARGE_MIN
           \/ ct = 0
           \/ w.claim[ct] \notin {NoOwner, d}

\* mission selection sends d to a satellite as a harvest source
SentToHarvest(w, d) ==
    /\ ComesToHarvest(w, d)
    /\ _choose_next_mission(w, d).bats[d].status = "enroute"

\* C35: whenever mission selection sends a drone to a satellite as a
\* harvest source, at that moment the satellite's energy is at least
\* HARVEST_START_LEVEL, it is reachable with the reserve floor kept, no drone
\* is in status charging on it, no other drone is in status harvesting on
\* it, it has the highest energy among the satellites meeting these
\* conditions, and the drone has acquired its claim.
C35_HarvestSourceEligible ==
    \A d \in Drones : \A w \in Stores(d) :
       SentToHarvest(w, d) =>
          LET r == _choose_next_mission(w, d)
              s == r.bats[d].target.satellite_id
          IN  /\ r.bats[d].target.kind = "satellite"
              /\ s \in Harvestable(w, d)
              /\ \A t \in Harvestable(w, d) :
                    w.sats[t].energy_amount <= w.sats[s].energy_amount
              /\ w.claim[s] \in {NoOwner, d}
              /\ r.claim[s] = d

\* A routing pass has come to a drone that is not in flight and its turn
\* sends it to a harvest source: two satellites are eligible and the drone
\* goes to the later one in the store, which holds more energy.
C35_Witness ==
    /\ pc = "route"
    /\ \E d \in Drones :
          LET w == AtTurn(World, d)
              r == _choose_next_mission(w, d)
              s == r.bats[d].target.satellite_id
          IN  /\ w.bats[d].status \notin {"enroute", "returning"}
              /\ SentToHarvest(w, d)
              /\ RouteDrone(w, d).bats[d] = r.bats[d]
              /\ \E t \in Harvestable(w, d) :
                    /\ t < s
                    /\ w.sats[t].energy_amount < w.sats[s].energy_amount

\* the dispatches of one auto-dispatch pass over store w, in their order
Dispatches(w) ==
    LET IsDispatch(e) == e.type = "drone.auto_dispatched"
    IN  SelectSeq(_auto_dispatch(w).ev, IsDispatch)

\* C36: in one auto-dispatch pass no drone is dispatched twice and no
\* satellite receives more than one drone; every drone it dispatches was in
\* status standby or at_earth with payload >= PAYLOAD_CHARGE_MIN, is sent to
\* a satellite whose energy is below AUTO_NEEDY_THRESH and that fewer than
\* AUTO_MAX_DRONES_PER_SAT drones already target, owns that satellite's claim
\* afterwards, and keeps reserve >= DRONE_RESERVE_MIN_TO_CONTINUE after
\* paying for the trip; satellites are served in ascending order of energy.
\* With auto-dispatch disabled the pass changes nothing.
C36_AutoDispatchPass ==
    pc = "route" =>
       LET w == [World EXCEPT !.ev = << >>]
           r == _auto_dispatch(w)
           ds == Dispatches(w)
       IN  /\ \A i, j \in 1 .. Len(ds) :
                 i < j =>
                    /\ ds[i].battery_id # ds[j].battery_id
                    /\ ds[i].satellite_id # ds[j].satellite_id
                    /\ w.sats[ds[i].satellite_id].energy_amount
                          <= w.sats[ds[j].satellite_id].energy_amount
           /\ \A i \in 1 .. Len(ds) :
                 LET d == ds[i].battery_id
                     s == ds[i].satellite_id
                 IN  /\ w.bats[d].status \in {"standby", "at_earth"}
                     /\ w.bats[d].battery >= PAYLOAD_CHARGE_MIN
                     /\ w.sats[s].energy_amount < AUTO_NEEDY_THRESH
                     /\ Cardinality({b \in DroneIds(w) :
                                       w.bats[b].target = SatTarget(s)})
                           < AUTO_MAX_DRONES_PER_SAT
                     /\ r.bats[d].status = "enroute"
                     /\ r.bats[d].target = SatTarget(s)
                     /\ r.claim[s] = d
                     /\ r.bats[d].reserve_battery
                           >= DRONE_RESERVE_MIN_TO_CONTINUE
           /\ \A d \in DroneIds(w) :
                 (\A i \in 1 .. Len(ds) : ds[i].battery_id # d) =>
                     r.bats[d] = w.bats[d]
           /\ ~CONFIG.AUTO_DISPATCH_ENABLED => r = w

\* A routing pass is about to start with auto-dispatch enabled and two idle
\* drones at Earth; both satellites are needy, and the pass dispatches one
\* drone to each, to the second satellite of the store first because it
\* holds less energy.
C36_Witness ==
    /\ pc = "route"
    /\ CONFIG.AUTO_DISPATCH_ENABLED
    /\ LET ds == Dispatches(World)
       IN  /\ Len(ds) = 2
           /\ ds[1].satellite_id > ds[2].satellite_id
           /\ SATELLITES[ds[1].satellite_id].energy_amount
                 < SATELLITES[ds[2].satellite_id].energy_amount

\* the energy movements of the routing pass just made: charging transfers,
\* harvesting transfers and Earth refills
EnergyTransfers ==
    {i \in 1 .. Len(events') :
        events'[i].type \in {"drone.charged", "drone.harvested",
                             "drone.recharged"}}

\* C37: every energy movement the orchestrator performs between a satellite
\* (or Earth) and a drone, namely each charging transfer, each harvesting
\* transfer and each Earth refill, appends exactly one Transaction to the
\* economics ledger: a routing pass lengthens the ledger by the number of
\* transfers it performed.
C37_TransferAppendsTransaction ==
    [][(pc = "route" /\ pc' = "assign_pending") =>
          Len(ECONOMICS'.transactions) =
             Len(ECONOMICS.transactions) + Cardinality(EnergyTransfers)]_vars

(***************************************************************************)
(* The equilibrium monitor (core/equilibrium.py).                          *)
(***************************************************************************)
Updates(ev) == {i \in 1 .. Len(ev) : ev[i].type = "equilibrium.update"}

\* the recommendation a check computes from the last ten samples of a
\* window and the store
Computed(history) ==
    LET n == Len(history)
        first == n - EQUILIBRIUM_MIN_SAMPLES + 1
        energy_sum ==
            SumOver([i \in 1 .. EQUILIBRIUM_MIN_SAMPLES |->
                         history[first + i - 1].total_energy],
                    EQUILIBRIUM_MIN_SAMPLES)
        capacity_sum ==
            SumOver([i \in 1 .. EQUILIBRIUM_MIN_SAMPLES |->
                         history[first + i - 1].capacity],
                    EQUILIBRIUM_MIN_SAMPLES)
    IN  _calculate_drone_need(
            history[n].total_energy - history[first].total_energy,
            energy_sum, capacity_sum,
            Cardinality({s \in Sats :
                SATELLITES[s].energy_amount < AUTO_NEEDY_THRESH}),
            Len(BATTERIES), history[n].active_drones,
            history[n].idle_drones)

\* a call of record_tick makes a periodic check with enough samples
PeriodicCheck ==
    /\ MONITOR'.tick_count % EQUILIBRIUM_CHECK_INTERVAL = 0
    /\ Len(MONITOR'.energy_history) >= 10

\* C38: equilibrium recommendations are edge-triggered: an
\* equilibrium.update is broadcast only at a periodic check (every
\* EQUILIBRIUM_CHECK_INTERVAL recorded ticks, with at least 10 samples in
\* the window) whose computed recommendation differs from the last
\* broadcast one, so no two consecutive broadcasts carry the same
\* recommendation, and the rolling window never holds more than
\* EQUILIBRIUM_WINDOW_TICKS samples.
C38_EdgeTriggeredRecommendations ==
    /\ [](Len(MONITOR.energy_history) <= EQUILIBRIUM_WINDOW_TICKS)
    /\ [][/\ Updates(events') # {} => pc = "record_tick"
          /\ pc = "record_tick" =>
                /\ MONITOR'.tick_count = MONITOR.tick_count + 1
                /\ Cardinality(Updates(events')) <= 1
                /\ Updates(events') # {} <=>
                      /\ PeriodicCheck
                      /\ Computed(MONITOR'.energy_history)
                            # MONITOR.last_recommendation
                /\ \A i \in Updates(events') :
                      /\ events'[i].recommendation
                            = Computed(MONITOR'.energy_history)
                      /\ events'[i].recommendation
                            # MONITOR.last_recommendation
                      /\ MONITOR'.last_recommendation
                            = events'[i].recommendation
                /\ Updates(events') = {} =>
                      MONITOR'.last_recommendation
                         = MONITOR.last_recommendation
          /\ pc # "record_tick" => MONITOR' = MONITOR]_vars

\* The window is full and has dropped its oldest samples, periodic checks
\* have passed without a broadcast, and the check just made broadcasts a
\* recommendation that differs from the last one broadcast.
C38_Witness ==
    /\ pc = "assign_pending"
    /\ Updates(events) # {}
    /\ MONITOR.tick_count > EQUILIBRIUM_WINDOW_TICKS
    /\ Len(MONITOR.energy_history) = EQUILIBRIUM_WINDOW_TICKS
    /\ MONITOR.last_recommendation.action = "add_drones"

\* the identities in the task list of satellite s, and those in the queue
ListedOn(s) == {TasksOn(s)[i].task_id : i \in 1 .. Len(TasksOn(s))}

QueuedIds == {TASK_QUEUE[i].task_id : i \in 1 .. Len(TASK_QUEUE)}

\* C39: task bookkeeping is consistent in every state visible outside the
\* lock, hence in every snapshot: the assignment index maps task t to
\* satellite s if and only if t is in s's task list; no task id is in two
\* satellites' lists or twice in one list; and no task still in the queue
\* appears in the assignment index or on any satellite (submitted task
\* identities being distinct).
C39_TaskBookkeepingConsistent ==
    /\ \A s \in Sats : \A t \in 1 .. created :
          (t \in DOMAIN ASSIGNED /\ ASSIGNED[t] = s) <=> t \in ListedOn(s)
    /\ DOMAIN ASSIGNED \subseteq 1 .. created
    /\ \A id \in DOMAIN ASSIGNED : ASSIGNED[id] \in Sats
    /\ \A s, x \in Sats : s # x => ListedOn(s) \cap ListedOn(x) = {}
    /\ \A s \in Sats : Cardinality(ListedOn(s)) = Len(TasksOn(s))
    /\ QueuedIds \cap DOMAIN ASSIGNED = {}
    /\ \A s \in Sats : QueuedIds \cap ListedOn(s) = {}

\* A satellite tick has just completed a task and removed it from the list
\* and from the index, while one task is in progress on a satellite and
\* one still waits in the queue.
C39_Witness ==
    /\ pc = "route"
    /\ TASK_QUEUE # << >>
    /\ \E id \in 1 .. created :
          /\ Removed(id)
          /\ id \notin DOMAIN ASSIGNED
    /\ \E s \in Sats : TasksOn(s) # << >>

\* the results the periodic check can give when no sample counts an idle
\* drone
WithoutIdle(rec) ==
    \/ rec.action = "add_drones" /\ rec.count \in {1, 2}
    \/ rec.action = "maintain"

\* C40: when record_tick runs after route within each tick (the stage
\* order of the loop), every sample the equilibrium monitor records has
\* idle_drones = 0, so the periodic check never yields the recommendations
\* dispatch_idle or reduce_drones: its result is always add_drones (count 2
\* or 1) or maintain.
C40_NoIdleDroneSampled ==
    /\ [](\A i \in 1 .. Len(MONITOR.energy_history) :
             MONITOR.energy_history[i].idle_drones = 0)
    /\ [](MONITOR.last_recommendation = NoRecommendation
             \/ WithoutIdle(MONITOR.last_recommendation))
    /\ [][(pc = "record_tick" /\ PeriodicCheck) =>
             WithoutIdle(Computed(MONITOR'.energy_history))]_vars

\* A periodic check has just been made while a satellite is below
\* AUTO_NEEDY_THRESH and the energy is not falling: with an idle drone in the
\* sample the result would be dispatch_idle; both drones are at work and
\* the result is maintain.
C40_Witness ==
    /\ pc = "assign_pending"
    /\ MONITOR.tick_count >= EQUILIBRIUM_CHECK_INTERVAL
    /\ MONITOR.tick_count % EQUILIBRIUM_CHECK_INTERVAL = 0
    /\ \E s \in Sats : SATELLITES[s].energy_amount < AUTO_NEEDY_THRESH
    /\ LET h == MONITOR.energy_history
       IN  /\ h[Len(h)].active_drones = Len(BATTERIES)
           /\ h[Len(h)].total_energy - h[Len(h) - 9].total_energy
                 >= EQUILIBRIUM_DISPATCH_THRESHOLD
           /\ Computed(h).action = "maintain"

====
